---- MODULE Spec2Model ----
(***************************************************************************)
(* The drift decision engine of NTPsecDispatcher                           *)
(* (src/ToDo/driftMonitorDual.py): probe -> memo -> history -> decision -> *)
(* corrective command -> render -> sleep, with the memo file written by    *)
(* write-temp-then-replace.                                                *)
(***************************************************************************)
EXTENDS Integers, Sequences, FiniteSets, Bags, TLC

VARIABLES
    IS_WINDOWS,     \* platform.system() == "Windows"
    MODE,           \* args.mode
    fs,             \* the files of LOG_DIR: path -> file
    memo,           \* the module-level memo (a JSON value)
    skew_history,   \* deque(maxlen=HISTORY_LEN)
    pc,             \* where the process is
    skew_ns,        \* the sample of the current cycle: None or Some(ns)
    tool,           \* the measuring tool of the current cycle
    outcome,        \* what the probe command of the current cycle gave
    last,           \* the "previous" value read from the memo in this cycle
    issued,         \* the corrective command issued in this cycle
    events,         \* what the current cycle did and logged, in order
    cycle,          \* cycles started so far
    restarts,       \* process restarts so far
    pushed,         \* every sample appended to skew_history by this process
    canon,          \* the canonical memo file between saves, and as the
                    \* save_memo in progress found it
    diedAt,         \* where the last interrupted process was stopped
    running,        \* the command run_cmd is waiting for, or "none"
    waited,         \* time units run_cmd has waited for it
    orphans,        \* the processes left behind by a timeout and still alive:
                    \* a bag of their commands
    lastCmd,        \* the last command run_cmd returned from, and how
    disk,           \* LOG_DIR as two racing instances see it: names and inodes
    savers,         \* where each of two racing instances is in save_memo,
                    \* and what its save_memo logged
    probeLines,     \* the output lines of a probe command
    termWidth,      \* shutil.get_terminal_size().columns
    graph           \* what render_graph returned

cmdVars == <<running, waited, orphans, lastCmd>>

raceVars == <<disk, savers>>

viewVars == <<probeLines, termWidth, graph>>

auxVars == <<cmdVars, raceVars, viewVars>>

vars == <<IS_WINDOWS, MODE, fs, memo, skew_history, pc, skew_ns, tool, outcome, last,
          issued, events, cycle, restarts, pushed, canon, diedAt, auxVars>>

----------------------------------------------------------------------------
(* Bounds of the model *)

MaxCycles == 2
MaxRestarts == 1
MaxHistCycles == 82

(* Program constants *)

HISTORY_LEN == 80
SEED_SAMPLES == 4

----------------------------------------------------------------------------
(* Optional[int] *)

None == <<>>
Some(x) == <<x>>

(* an exception that leaves the adapter: neither a sample nor None *)
Raised == <<0, 0>>

Abs(x) == IF x < 0 THEN -x ELSE x

Range(s) == {s[i] : i \in 1..Len(s)}

Prefix(s, n) == SubSeq(s, 1, n)

----------------------------------------------------------------------------
(* Mode settings *)

Modes == {"fast", "ultrafast", "lazy"}

PRECISION_THRESHOLD_NS(mode) ==
    IF mode = "ultrafast" THEN 1000
    ELSE IF mode = "lazy" THEN 1000000
    ELSE 100000

(* The band of the if / elif / else of drift_check_and_correct_* *)
Decision(abs_skew, t) ==
    IF t < abs_skew /\ abs_skew < 1000000 THEN "SmallAdjust"
    ELSE IF 100000000 < abs_skew /\ abs_skew < 1000000000 THEN "ForceStep"
    ELSE "NoAction"

----------------------------------------------------------------------------
(* skew_history: collections.deque(maxlen=HISTORY_LEN).append *)

DequeAppendNoEvict(h, x) == Append(h, x)

DequeAppend(h, x) ==
    IF Len(h) >= HISTORY_LEN THEN Append(Tail(h), x) ELSE Append(h, x)

SeedHistoryNone(h, n) == h

RECURSIVE SeedHistory(_, _)
SeedHistory(h, n) == IF n = 0 THEN h ELSE SeedHistory(DequeAppend(h, 0), n - 1)

LastN(s, n) == IF Len(s) <= n THEN s ELSE SubSeq(s, Len(s) - n + 1, Len(s))

----------------------------------------------------------------------------
(* The characters of a number *)

DigitChars == <<"0", "1", "2", "3", "4", "5", "6", "7", "8", "9">>

IsDigit(c) == c \in Range(DigitChars)

DigitVal(c) == (CHOOSE i \in 1..10 : DigitChars[i] = c) - 1

RECURSIVE Digits(_)
Digits(n) ==
    IF n < 10 THEN <<DigitChars[n + 1]>>
    ELSE Digits(n \div 10) \o <<DigitChars[(n % 10) + 1]>>

(* the length of the run of digits that starts the text *)
RECURSIVE DigitRun(_)
DigitRun(t) ==
    IF t # <<>> /\ IsDigit(t[1]) THEN 1 + DigitRun(Tail(t)) ELSE 0

RECURSIVE DigitsToInt(_, _)
DigitsToInt(t, acc) ==
    IF t = <<>> THEN acc ELSE DigitsToInt(Tail(t), 10 * acc + DigitVal(t[1]))

RECURSIVE LeadingZeros(_)
LeadingZeros(d) ==
    IF d # <<>> /\ d[1] = "0" THEN 1 + LeadingZeros(Tail(d)) ELSE 0

RECURSIVE StripTrailingZeros(_)
StripTrailingZeros(d) ==
    IF d # <<>> /\ d[Len(d)] = "0"
    THEN StripTrailingZeros(SubSeq(d, 1, Len(d) - 1))
    ELSE d

Zeros(n) == [i \in 1..n |-> "0"]

----------------------------------------------------------------------------
(* JSON values as json.load gives them. type is "dict", "list", "str",     *)
(* "int", "float", "true", "false", "null", "nan" or "inf". A dict is its  *)
(* items in insertion order, a list its items under the key "". A float is *)
(* held as its sign, its significant digits and the place of the point,    *)
(* 0.d1..dn * 10^pt (the float zero has no digits). Floats of up to 15     *)
(* significant digits inside the range of a double are held exactly as     *)
(* float() and repr() keep them.                                           *)

Json(type, items, n, neg, digs, pt, str) ==
    [type |-> type, items |-> items, n |-> n, neg |-> neg, digs |-> digs,
     pt |-> pt, str |-> str]

IntNum(n) == Json("int", <<>>, n, FALSE, <<>>, 0, "")

FloatNum(neg, digs, pt) == Json("float", <<>>, 0, neg, digs, pt, "")

(* None, True, False and float("nan") *)
JsonLit(type) == Json(type, <<>>, 0, FALSE, <<>>, 0, "")

(* float("inf") and float("-inf") *)
JsonInf(neg) == Json("inf", <<>>, 0, neg, <<>>, 0, "")

JsonStr(s) == Json("str", <<>>, 0, FALSE, <<>>, 0, s)

(* float(text) of the digits d with the point after the first pt of them *)
MakeFloat(neg, d, pt) ==
    LET z == LeadingZeros(d)
        s == StripTrailingZeros(SubSeq(d, z + 1, Len(d)))
    IN  IF s = <<>> THEN FloatNum(neg, <<>>, 0) ELSE FloatNum(neg, s, pt - z)

(* float(n) of an int *)
IntToFloat(n) == MakeFloat(n < 0, Digits(Abs(n)), Len(Digits(Abs(n))))

(* the values Python compares as numbers: bool is a subclass of int *)
IsNumber(v) == v.type \in {"int", "float", "true", "false", "inf", "nan"}

(* a == b on numbers: an int equals the float of the same value, True is 1 *)
(* and False is 0, 0.0 == -0.0, and nan equals nothing                     *)
NumEq(a, b) ==
    LET F(x) == IF x.type = "int" THEN IntToFloat(x.n)
                ELSE IF x.type = "true" THEN IntToFloat(1)
                ELSE IF x.type = "false" THEN IntToFloat(0)
                ELSE x
    IN  IF a.type = "nan" \/ b.type = "nan" THEN FALSE
        ELSE IF a.type = "inf" \/ b.type = "inf"
        THEN a.type = b.type /\ a.neg = b.neg
        ELSE /\ F(a).digs = F(b).digs
             /\ F(a).pt = F(b).pt
             /\ F(a).digs = <<>> \/ F(a).neg = F(b).neg

----------------------------------------------------------------------------
(* The memo *)

MemoKey == "last_skew_ns"

(* the key driftMonitor.py keeps its sample under, in the same file *)
MonMemoKey == "last_skew"

Item(k, v) == [k |-> k, v |-> v]

DictOf(items) == Json("dict", items, 0, FALSE, <<>>, 0, "")

ListOf(items) == Json("list", items, 0, FALSE, <<>>, 0, "")

EmptyDict == DictOf(<<>>)
EmptyList == ListOf(<<>>)

HasKey(d, k) == \E i \in 1..Len(d.items) : d.items[i].k = k

(* dict.get(k, default) *)
DictGet(d, k, default) ==
    IF HasKey(d, k)
    THEN d.items[CHOOSE i \in 1..Len(d.items) : d.items[i].k = k].v
    ELSE default

(* d[k] = v: an existing key keeps its place, a new key goes last *)
DictSet(d, k, v) ==
    IF HasKey(d, k)
    THEN DictOf([i \in 1..Len(d.items) |->
                    IF d.items[i].k = k THEN Item(k, v) ELSE d.items[i]])
    ELSE DictOf(Append(d.items, Item(k, v)))

(* a == b: dict equality does not look at the order of the items, list     *)
(* equality does. The items of a container are compared by identity first, *)
(* and the decoder gives the one object float("nan") for every NaN it      *)
(* reads: a NaN inside a container equals a NaN in the same place          *)
RECURSIVE JsonEq(_, _), ItemEq(_, _)
JsonEq(a, b) ==
    IF IsNumber(a) \/ IsNumber(b) THEN IsNumber(a) /\ IsNumber(b) /\ NumEq(a, b)
    ELSE IF a.type # b.type \/ Len(a.items) # Len(b.items) THEN FALSE
    ELSE IF a.type = "dict"
    THEN \A i \in 1..Len(a.items) :
            /\ HasKey(b, a.items[i].k)
            /\ ItemEq(a.items[i].v, DictGet(b, a.items[i].k, a.items[i].v))
    ELSE IF a.type = "list"
    THEN \A i \in 1..Len(a.items) : ItemEq(a.items[i].v, b.items[i].v)
    ELSE a.str = b.str

ItemEq(a, b) == (a.type = "nan" /\ b.type = "nan") \/ JsonEq(a, b)

----------------------------------------------------------------------------
(* json.dump / json.load on a text of tokens: each punctuation mark, each  *)
(* character of a number, the quotation mark, what stands between two      *)
(* quotation marks, a run of white space outside a string, and the words   *)
(* null, true, false, NaN and Infinity.                                    *)

Quote == "\""

Space == " "

(* the text after the white space at its head *)
RECURSIVE SkipSpace(_)
SkipSpace(t) == IF t # <<>> /\ t[1] = Space THEN SkipSpace(Tail(t)) ELSE t

IntToTextUnsigned(n) == Digits(Abs(n))

(* int.__repr__ as the JSON encoder uses it *)
IntToText(n) == IF n < 0 THEN <<"-">> \o Digits(-n) ELSE Digits(n)

(* float.__repr__: the digits with the point in its place, at least one    *)
(* digit after it; the exponent form below 1e-4 and from 1e16 on           *)
FloatRepr(f) ==
    LET n == Len(f.digs)
        e == f.pt - 1
    IN  (IF f.neg THEN <<"-">> ELSE <<>>)
        \o (IF n = 0 THEN <<"0", ".", "0">>
            ELSE IF f.pt > 16 \/ f.pt < -3
            THEN <<f.digs[1]>>
                 \o (IF n > 1 THEN <<".">> \o Tail(f.digs) ELSE <<>>)
                 \o <<"e", IF e < 0 THEN "-" ELSE "+">>
                 \o (IF Abs(e) < 10 THEN <<"0">> ELSE <<>>)
                 \o Digits(Abs(e))
            ELSE IF f.pt <= 0 THEN <<"0", ".">> \o Zeros(-f.pt) \o f.digs
            ELSE IF f.pt >= n THEN f.digs \o Zeros(f.pt - n) \o <<".", "0">>
            ELSE SubSeq(f.digs, 1, f.pt) \o <<".">> \o SubSeq(f.digs, f.pt + 1, n))

(* the text the JSON encoder writes for a string *)
StrToText(s) == IF s = "" THEN <<Quote, Quote>> ELSE <<Quote, s, Quote>>

(* json.dump(v, f): the text written, with the separators ", " and ": " *)
RECURSIVE JsonDump(_), DumpItems(_, _)
JsonDump(v) ==
    IF v.type = "dict" THEN <<"{">> \o DumpItems(v.items, TRUE) \o <<"}">>
    ELSE IF v.type = "list" THEN <<"[">> \o DumpItems(v.items, FALSE) \o <<"]">>
    ELSE IF v.type = "str" THEN StrToText(v.str)
    ELSE IF v.type = "int" THEN IntToText(v.n)
    ELSE IF v.type = "float" THEN FloatRepr(v)
    ELSE IF v.type = "inf"
    THEN (IF v.neg THEN <<"-">> ELSE <<>>) \o <<"Infinity">>
    ELSE IF v.type = "nan" THEN <<"NaN">>
    ELSE <<v.type>>

(* the members of a dict (keyed) or the elements of a list *)
DumpItems(items, keyed) ==
    IF items = <<>> THEN <<>>
    ELSE (IF keyed THEN StrToText(items[1].k) \o <<":", Space>> ELSE <<>>)
         \o JsonDump(items[1].v)
         \o (IF Len(items) > 1 THEN <<",", Space>> \o DumpItems(Tail(items), keyed)
             ELSE <<>>)

Drop(t, n) == SubSeq(t, n + 1, Len(t))

(* 0, or a run of digits that does not start with 0 *)
IntLen(t) == IF t # <<>> /\ t[1] = "0" THEN 1 ELSE DigitRun(t)

(* the digits after a point at the head of the text *)
FracLen(t) == IF Len(t) >= 2 /\ t[1] = "." THEN DigitRun(Tail(t)) ELSE 0

(* e or E at the head of the text, with its sign if it has one *)
ExpMarkLen(t) ==
    IF t = <<>> \/ t[1] \notin {"e", "E"} THEN 0
    ELSE IF Len(t) >= 2 /\ t[2] \in {"+", "-"} THEN 2
    ELSE 1

(* the exponent at the head of the text: its mark and the digits after it *)
ExpLen(t) ==
    IF ExpMarkLen(t) = 0 \/ DigitRun(Drop(t, ExpMarkLen(t))) = 0 THEN 0
    ELSE ExpMarkLen(t) + DigitRun(Drop(t, ExpMarkLen(t)))

ExpVal(t) ==
    IF t = <<>> THEN 0
    ELSE IF t[2] = "-" THEN -DigitsToInt(Drop(t, 2), 0)
    ELSE DigitsToInt(Drop(t, ExpMarkLen(t)), 0)

(* int(text) with neither fraction nor exponent, float(text) otherwise *)
NumberOf(neg, int, frac, exp) ==
    IF frac = <<>> /\ exp = <<>>
    THEN IntNum(IF neg THEN -DigitsToInt(int, 0) ELSE DigitsToInt(int, 0))
    ELSE MakeFloat(neg, int \o frac, Len(int) + ExpVal(exp))

ParseFail == [ok |-> FALSE, val |-> EmptyDict, rest |-> <<>>]

Parsed(v, rest) == [ok |-> TRUE, val |-> v, rest |-> rest]

ScanUnsigned(neg, t) ==
    LET ni == IntLen(t)
        nf == FracLen(Drop(t, ni))
        np == IF nf = 0 THEN ni ELSE ni + 1 + nf
        ne == ExpLen(Drop(t, np))
    IN  IF ni = 0 THEN ParseFail
        ELSE Parsed(NumberOf(neg, Prefix(t, ni), SubSeq(t, ni + 2, np),
                             SubSeq(t, np + 1, np + ne)),
                    Drop(t, np + ne))

(* the number at the head of the text as the decoder's NUMBER_RE matches   *)
(* it (an optional minus, 0 or a run of digits that does not start with 0, *)
(* an optional point with digits, an optional exponent with digits), and   *)
(* the text left                                                           *)
ScanNumber(t) ==
    IF t # <<>> /\ t[1] = "-" THEN ScanUnsigned(TRUE, Tail(t))
    ELSE ScanUnsigned(FALSE, t)

(* the string at the head of the text, which starts with a quotation mark *)
ScanString(t) ==
    IF Len(t) >= 2 /\ t[2] = Quote THEN Parsed(JsonStr(""), Drop(t, 2))
    ELSE IF Len(t) >= 3 /\ t[3] = Quote THEN Parsed(JsonStr(t[2]), Drop(t, 3))
    ELSE ParseFail

(* the words the decoder takes for constants once no number matched *)
ScanConstant(t) ==
    IF t[1] = "NaN" THEN Parsed(JsonLit("nan"), Tail(t))
    ELSE IF t[1] = "Infinity" THEN Parsed(JsonInf(FALSE), Tail(t))
    ELSE IF t[1] = "-" /\ Len(t) >= 2 /\ t[2] = "Infinity"
    THEN Parsed(JsonInf(TRUE), Drop(t, 2))
    ELSE ParseFail

RECURSIVE ParseValue(_), ParseMembers(_, _), MemberEnd(_, _, _),
          ParseElements(_, _), ElementEnd(_, _)

(* scan_once: the value at the head of the text and the text left *)
ParseValue(t) ==
    IF t = <<>> THEN ParseFail
    ELSE IF t[1] = Quote THEN ScanString(t)
    ELSE IF t[1] = "{"
    THEN IF SkipSpace(Tail(t)) # <<>> /\ SkipSpace(Tail(t))[1] = "}"
         THEN Parsed(EmptyDict, Tail(SkipSpace(Tail(t))))
         ELSE ParseMembers(SkipSpace(Tail(t)), EmptyDict)
    ELSE IF t[1] = "["
    THEN IF SkipSpace(Tail(t)) # <<>> /\ SkipSpace(Tail(t))[1] = "]"
         THEN Parsed(EmptyList, Tail(SkipSpace(Tail(t))))
         ELSE ParseElements(SkipSpace(Tail(t)), <<>>)
    ELSE IF t[1] \in {"null", "true", "false"} THEN Parsed(JsonLit(t[1]), Tail(t))
    ELSE LET m == ScanNumber(t)
         IN  IF m.ok THEN m ELSE ScanConstant(t)

(* JSONObject: "key" : value, then a comma and more members or the closing *)
(* brace, with white space allowed around each; a key met again takes the  *)
(* later value                                                             *)
ParseMembers(t, acc) ==
    LET key == ScanString(t)
        end == SkipSpace(key.rest)
    IN  IF t = <<>> \/ t[1] # Quote \/ ~key.ok THEN ParseFail
        ELSE IF end = <<>> THEN ParseFail
        ELSE IF end[1] # ":" THEN ParseFail
        ELSE MemberEnd(key.val.str, ParseValue(SkipSpace(Tail(end))), acc)

MemberEnd(k, v, acc) ==
    IF ~v.ok \/ SkipSpace(v.rest) = <<>> THEN ParseFail
    ELSE IF SkipSpace(v.rest)[1] = "}"
    THEN Parsed(DictSet(acc, k, v.val), Tail(SkipSpace(v.rest)))
    ELSE IF SkipSpace(v.rest)[1] = ","
    THEN ParseMembers(SkipSpace(Tail(SkipSpace(v.rest))), DictSet(acc, k, v.val))
    ELSE ParseFail

(* JSONArray: value, then a comma and more elements or the closing bracket *)
ParseElements(t, acc) == ElementEnd(ParseValue(t), acc)

ElementEnd(v, acc) ==
    IF ~v.ok \/ SkipSpace(v.rest) = <<>> THEN ParseFail
    ELSE IF SkipSpace(v.rest)[1] = "]"
    THEN Parsed(ListOf(Append(acc, Item("", v.val))), Tail(SkipSpace(v.rest)))
    ELSE IF SkipSpace(v.rest)[1] = ","
    THEN ParseElements(SkipSpace(Tail(SkipSpace(v.rest))), Append(acc, Item("", v.val)))
    ELSE ParseFail

(* json.load(f): the one value of the text, or a decode error *)
JsonLoad(text) ==
    LET obj == ParseValue(SkipSpace(text))
    IN  IF obj.ok /\ SkipSpace(obj.rest) = <<>> THEN obj ELSE ParseFail

----------------------------------------------------------------------------
(* The files of LOG_DIR *)

MEMO_FILE == "memo.json"
TmpPathInPlace == MEMO_FILE

(* tmp = MEMO_FILE + ".tmp" *)
TmpPath == "memo.json.tmp"

Absent == [st |-> "absent", text |-> <<>>]
File(text) == [st |-> "file", text |-> text]
Unreadable(text) == [st |-> "unreadable", text |-> text]

(* load_memo(): never raises; anything but a decoded file gives {} *)
load_memo(files) ==
    LET f == files[MEMO_FILE]
        obj == JsonLoad(f.text)
    IN  IF f.st = "file" /\ obj.ok THEN obj.val ELSE EmptyDict

(* load_memo() logs "[WARN] Could not load memo" when open or json.load raises *)
load_memo_warns(files) ==
    LET f == files[MEMO_FILE]
    IN  f.st = "unreadable" \/ (f.st = "file" /\ ~JsonLoad(f.text).ok)

(* os.replace(src, dst) *)
Replace(files, src, dst) ==
    IF src = dst THEN files
    ELSE [files EXCEPT ![dst] = files[src], ![src] = Absent]

(* The memo files a start may find *)
InitialMemoFiles ==
    { Absent,
      Unreadable(JsonDump(DictOf(<<Item(MemoKey, IntNum(40))>>))),
      File(<<"{", Quote, MemoKey, Quote, ":">>),
      File(JsonDump(DictOf(<<Item(MemoKey, IntNum(-7))>>))),
      File(JsonDump(DictOf(<<Item(MemoKey, IntToFloat(-50000))>>))),
      File(JsonDump(DictOf(<<Item(MonMemoKey, IntNum(3))>>))),
      File(JsonDump(ListOf(<<Item("", IntNum(1))>>))) }

(* dispatcher.py formats the stored value as a number, so its runs also    *)
(* start from a memo whose value is no number                              *)
DispMemoFiles ==
    InitialMemoFiles \cup {File(JsonDump(DictOf(<<Item(MemoKey, JsonLit("null"))>>)))}

----------------------------------------------------------------------------
(* One probe: the tool found and what its command gave *)

SkewValues == {0, -50000, 1000000, 250000000}

(* what a probe command gave: what measure_skew_* makes of its output, and *)
(* whether it wrote to stderr                                              *)
Outcome(tl, kind, ns, stderr) ==
    [tool |-> tl, kind |-> kind, ns |-> ns, stderr |-> stderr]

ProbeTools(win) == IF win THEN {"w32tm"} ELSE {"chrony", "ntpd"}

(* the tool shutil.which finds; on Unix it may find neither chronyc nor ntpq *)
ToolChoices(win) == IF win THEN ProbeTools(win) ELSE ProbeTools(win) \cup {"none"}

(* run_cmd returns "" on a timeout or an exception: no stderr is read then *)
ProbeOutcomes(win, skews) ==
    {Outcome(tl, "ok", s, e) : tl \in ProbeTools(win), s \in skews, e \in BOOLEAN}
    \cup {Outcome(tl, k, 0, e) :
              tl \in ProbeTools(win), k \in {"empty", "nomatch", "malformed"},
              e \in BOOLEAN}
    \cup {Outcome(tl, k, 0, FALSE) : tl \in ProbeTools(win), k \in {"timeout", "error"}}

(* the status query may also print a labelled decimal too large for a    *)
(* float: measure_skew_windows_status catches ValueError only             *)
StatusOutcomes(win, skews) ==
    ProbeOutcomes(win, skews)
    \cup {Outcome("w32tm", "overflow", 0, e) : e \in BOOLEAN}

(* measure_skew_*: the sample, None when the command gave nothing usable, *)
(* or the OverflowError of the status adapter                             *)
measure_result(out) ==
    IF out.kind = "ok" THEN Some(out.ns)
    ELSE IF out.kind = "overflow" THEN Raised
    ELSE None

(* run_cmd logs [CMD-ERR] on a timeout, on an exception, and when the      *)
(* command wrote to stderr                                                 *)
CmdErr(out) == out.kind \in {"timeout", "error"} \/ out.stderr

CmdErrLog(err) == IF err THEN <<"CMD-ERR">> ELSE <<>>

Count(x, seq) == Cardinality({i \in 1..Len(seq) : seq[i] = x})

CorrectiveCommandsBoth(band) ==
    IF band = "SmallAdjust" THEN <<"small", "force">>
    ELSE IF band = "ForceStep" THEN <<"force">>
    ELSE <<>>

(* The branch of the if / elif / else taken: the commands it awaits *)
CorrectiveCommands(band) ==
    IF band = "SmallAdjust" THEN <<"small">>
    ELSE IF band = "ForceStep" THEN <<"force">>
    ELSE <<>>

(* log("[ACTION] ... issued (small adjustment)") and its forced-step twin *)
ActionLog(c) == IF c = "small" THEN "ACTION small" ELSE "ACTION force"

(* One run_cmd, with its [CMD-ERR] line if any, and one line of the caller *)
(* for each command awaited                                                *)
RECURSIVE ExecutorLog(_, _)
ExecutorLog(cmds, err) ==
    IF cmds = <<>> THEN <<>>
    ELSE <<"Executor">> \o CmdErrLog(err) \o <<ActionLog(Head(cmds))>>
         \o ExecutorLog(Tail(cmds), err)

(* after drift_check_and_correct_*: draw_tui in the loop, return in one_shot_run *)
AfterCheck == IF MODE = "ultrafast" THEN "render" ELSE "exited"

(* save_memo(memo := memo) binds memo as a local of                        *)
(* drift_check_and_correct_windows, so the read before it is unbound       *)
MemoUnbound == IS_WINDOWS

LivePcs == {"main", "config", "probe", "probing", "fallback", "memo", "save_open",
            "save_write", "save_replace", "push", "decide", "exec", "render", "sleep"}

SavePcs == {"save_write", "save_replace"}

EndedPcs == {"exited", "crashed", "interrupted"}

----------------------------------------------------------------------------
(* No command is awaited, none was left behind *)
NoCmd == [name |-> "none", res |-> "none", at |-> 0, stderr |-> FALSE]

CmdIdle ==
    /\ running = "none"
    /\ waited = 0
    /\ orphans = EmptyBag
    /\ lastCmd = NoCmd

(* No second instance: the race on LOG_DIR is not played *)
RaceIdle ==
    /\ disk = <<>>
    /\ savers = <<>>

(* Nothing parsed and nothing drawn outside the cycle *)
ViewIdle ==
    /\ probeLines = <<>>
    /\ termWidth = 0
    /\ graph = <<>>

(* A process is started on one platform, in one mode, with the memo file   *)
(* as an earlier run left it                                               *)
StartState(files) ==
    /\ IS_WINDOWS \in BOOLEAN
    /\ MODE \in Modes
    /\ \E f \in files :
          fs = [p \in {MEMO_FILE, TmpPath} |-> IF p = MEMO_FILE THEN f ELSE Absent]
    /\ skew_history = <<>>
    /\ pc = "main"
    /\ skew_ns = None
    /\ tool = "none"
    /\ outcome = "none"
    /\ last = None
    /\ issued = "none"
    /\ cycle = 0
    /\ restarts = 0
    /\ pushed = <<>>
    /\ canon = fs[MEMO_FILE]
    /\ diedAt = "none"

(* the module-level code of driftMonitorDual.py: memo = load_memo() *)
CoreInit ==
    /\ StartState(InitialMemoFiles)
    /\ memo = load_memo(fs)
    /\ events = IF load_memo_warns(fs) THEN <<"WARN">> ELSE <<>>

Init ==
    /\ CoreInit
    /\ CmdIdle
    /\ RaceIdle
    /\ ViewIdle

(* main(): seed the history, then ultrafast_loop() or one_shot_run() *)
Main ==
    /\ pc = "main"
    /\ skew_history' = IF skew_history = <<>>
                       THEN SeedHistory(skew_history, SEED_SAMPLES)
                       ELSE skew_history
    /\ pushed' = IF skew_history = <<>>
                 THEN pushed \o [i \in 1..SEED_SAMPLES |-> 0]
                 ELSE pushed
    /\ cycle' = cycle + 1
    /\ diedAt' = "none"
    /\ pc' = "probe"
    /\ UNCHANGED <<IS_WINDOWS, MODE, fs, memo, skew_ns, tool, outcome, last, issued,
                   events, restarts, canon>>
    /\ UNCHANGED auxVars

(* the cycle begins: shutil.which on Unix, then measure_skew_* is called    *)
(* and starts its first command; with no tool the cycle is over            *)
ProbeStart(tools) ==
    /\ pc = "probe"
    /\ \E tl \in tools :
          /\ tool' = tl
          /\ IF tl = "none"
             THEN /\ outcome' = "missing"
                  /\ events' = <<"Probe", "WARN">>
                  /\ pc' = AfterCheck
             ELSE /\ outcome' = "none"
                  /\ events' = <<"Probe">>
                  /\ pc' = "probing"
    /\ skew_ns' = None
    /\ last' = None
    /\ issued' = "none"
    /\ UNCHANGED <<IS_WINDOWS, MODE, fs, memo, skew_history, cycle, restarts,
                   pushed, canon, diedAt>>
    /\ UNCHANGED auxVars

(* the first probe command is over. With no sample measure_skew_windows    *)
(* goes on to the status query; on Unix the cycle logs WARN and returns    *)
Probe(outs) ==
    /\ pc = "probing"
    /\ \E out \in outs :
          /\ out.tool = tool
          /\ outcome' = out.kind
          /\ skew_ns' = measure_result(out)
          /\ events' = events \o CmdErrLog(CmdErr(out))
                       \o (IF measure_result(out) = None /\ ~IS_WINDOWS
                           THEN <<"WARN">> ELSE <<>>)
          /\ pc' = IF measure_result(out) # None THEN "memo"
                   ELSE IF IS_WINDOWS THEN "fallback"
                   ELSE AfterCheck
    /\ UNCHANGED <<IS_WINDOWS, MODE, fs, memo, skew_history, tool, last, issued, cycle,
                   restarts, pushed, canon, diedAt>>
    /\ UNCHANGED auxVars

(* measure_skew_windows_status: the status query is over; with no sample   *)
(* the cycle logs WARN and returns; an OverflowError of the adapter is     *)
(* caught nowhere, and asyncio.run(main()) ends with it                    *)
Fallback(outs) ==
    /\ pc = "fallback"
    /\ \E out \in outs :
          /\ out.tool = tool
          /\ outcome' = out.kind
          /\ IF measure_result(out) = Raised
             THEN /\ skew_ns' = None
                  /\ events' = events \o CmdErrLog(CmdErr(out))
                               \o <<"OverflowError">>
                  /\ pc' = "crashed"
             ELSE /\ skew_ns' = measure_result(out)
                  /\ events' = events \o CmdErrLog(CmdErr(out))
                               \o (IF measure_result(out) = None
                                   THEN <<"WARN">> ELSE <<>>)
                  /\ pc' = IF measure_result(out) # None THEN "memo" ELSE AfterCheck
    /\ UNCHANGED <<IS_WINDOWS, MODE, fs, memo, skew_history, tool, last, issued, cycle,
                   restarts, pushed, canon, diedAt>>
    /\ UNCHANGED auxVars

(* last = memo.get("last_skew_ns", 0); memo["last_skew_ns"] = skew_ns *)
MemoUpdate ==
    /\ pc = "memo"
    /\ IF MemoUnbound
       THEN /\ pc' = "crashed"
            /\ events' = Append(events, "UnboundLocalError")
            /\ UNCHANGED <<memo, last>>
       ELSE IF memo.type # "dict"
       THEN /\ pc' = "crashed"
            /\ events' = Append(events, "AttributeError")
            /\ UNCHANGED <<memo, last>>
       ELSE /\ last' = Some(DictGet(memo, MemoKey, IntNum(0)))
            /\ memo' = DictSet(memo, MemoKey, IntNum(skew_ns[1]))
            /\ pc' = "save_open"
            /\ UNCHANGED events
    /\ UNCHANGED <<IS_WINDOWS, MODE, fs, skew_history, skew_ns, tool, outcome, issued,
                   cycle, restarts, pushed, canon, diedAt>>
    /\ UNCHANGED auxVars

(* save_memo: with open(tmp, "w") *)
SaveOpen(oks) ==
    /\ pc = "save_open"
    /\ canon' = fs[MEMO_FILE]
    /\ \E ok \in oks :
          IF ok
          THEN /\ fs' = [fs EXCEPT ![TmpPath] = File(<<>>)]
               /\ pc' = "save_write"
               /\ UNCHANGED events
          ELSE /\ events' = Append(events, "WARN")
               /\ pc' = "push"
               /\ UNCHANGED fs
    /\ UNCHANGED <<IS_WINDOWS, MODE, memo, skew_history, skew_ns, tool, outcome, last,
                   issued, cycle, restarts, pushed, diedAt>>
    /\ UNCHANGED auxVars

(* save_memo: json.dump(d, f) and the close of the file; a failed write    *)
(* leaves a part of the text                                               *)
SaveWrite(oks) ==
    /\ pc = "save_write"
    /\ \E ok \in oks :
          IF ok
          THEN /\ fs' = [fs EXCEPT ![TmpPath] = File(JsonDump(memo))]
               /\ pc' = "save_replace"
               /\ UNCHANGED events
          ELSE /\ \E n \in 0..(Len(JsonDump(memo)) - 1) :
                     fs' = [fs EXCEPT ![TmpPath] = File(Prefix(JsonDump(memo), n))]
               /\ events' = Append(events, "WARN")
               /\ pc' = "push"
    /\ UNCHANGED <<IS_WINDOWS, MODE, memo, skew_history, skew_ns, tool, outcome, last,
                   issued, cycle, restarts, pushed, canon, diedAt>>
    /\ UNCHANGED auxVars

(* save_memo: os.replace(tmp, MEMO_FILE) *)
SaveReplace(oks) ==
    /\ pc = "save_replace"
    /\ \E ok \in oks :
          IF ok
          THEN /\ fs' = Replace(fs, TmpPath, MEMO_FILE)
               /\ events' = Append(events, "Memo.save")
          ELSE /\ events' = Append(events, "WARN")
               /\ UNCHANGED fs
    /\ pc' = "push"
    /\ canon' = fs'[MEMO_FILE]
    /\ UNCHANGED <<IS_WINDOWS, MODE, memo, skew_history, skew_ns, tool, outcome, last,
                   issued, cycle, restarts, pushed, diedAt>>
    /\ UNCHANGED auxVars

(* skew_history.append(skew_ns); log [MEASURE] *)
Push ==
    /\ pc = "push"
    /\ skew_history' = DequeAppend(skew_history, skew_ns[1])
    /\ pushed' = Append(pushed, skew_ns[1])
    /\ events' = Append(events, "History.push")
    /\ pc' = "decide"
    /\ UNCHANGED <<IS_WINDOWS, MODE, fs, memo, skew_ns, tool, outcome, last, issued,
                   cycle, restarts, canon, diedAt>>
    /\ UNCHANGED auxVars

BandNow == Decision(Abs(skew_ns[1]), PRECISION_THRESHOLD_NS(MODE))

(* the if / elif / else on abs_skew: the else branch logs [DECISION], the  *)
(* others call apply_*, which starts the corrective command                *)
Decide ==
    /\ pc = "decide"
    /\ IF CorrectiveCommands(BandNow) = <<>>
       THEN /\ events' = Append(events, "Decision")
            /\ pc' = AfterCheck
       ELSE /\ events' = events \o <<"Decision", "Executor">>
            /\ pc' = "exec"
    /\ UNCHANGED <<IS_WINDOWS, MODE, fs, memo, skew_history, skew_ns, tool, outcome, last,
                   issued, cycle, restarts, pushed, canon, diedAt>>
    /\ UNCHANGED auxVars

(* run_cmd returns to apply_*, with a [CMD-ERR] line when the command      *)
(* wrote to stderr, timed out or could not be run; then log("[ACTION] ..") *)
(* and the next command of the branch, if it has one                       *)
Executed(errs) ==
    /\ pc = "exec"
    /\ LET cmds == CorrectiveCommands(BandNow)
           k    == Count("Executor", events)
       IN  /\ issued' = cmds[k]
           /\ \E err \in errs :
                 events' = events \o CmdErrLog(err) \o <<ActionLog(cmds[k])>>
                           \o (IF k < Len(cmds) THEN <<"Executor">> ELSE <<>>)
           /\ pc' = IF k < Len(cmds) THEN "exec" ELSE AfterCheck
    /\ UNCHANGED <<IS_WINDOWS, MODE, fs, memo, skew_history, skew_ns, tool, outcome, last,
                   cycle, restarts, pushed, canon, diedAt>>
    /\ UNCHANGED auxVars

(* draw_tui(): os.system("cls" or "clear") has returned, and the frame is *)
(* printed. At "render" the loop is inside os.system, which waits for the *)
(* command as long as it runs                                             *)
Render ==
    /\ pc = "render"
    /\ events' = Append(events, "Render")
    /\ pc' = "sleep"
    /\ UNCHANGED <<IS_WINDOWS, MODE, fs, memo, skew_history, skew_ns, tool, outcome, last,
                   issued, cycle, restarts, pushed, canon, diedAt>>
    /\ UNCHANGED auxVars

(* await asyncio.sleep(CHECK_INTERVAL), then the next turn of while True *)
Sleep(maxCycles) ==
    /\ pc = "sleep"
    /\ cycle < maxCycles
    /\ cycle' = cycle + 1
    /\ pc' = "probe"
    /\ UNCHANGED <<IS_WINDOWS, MODE, fs, memo, skew_history, skew_ns, tool, outcome, last,
                   issued, events, restarts, pushed, canon, diedAt>>
    /\ UNCHANGED auxVars

(* Ctrl-C, a kill or a crash of the host: the process stops where it is;   *)
(* a write in progress leaves a part of the text in the file it writes     *)
Interrupt ==
    /\ pc \in LivePcs
    /\ diedAt' = pc
    /\ pc' = "interrupted"
    /\ IF pc = "save_write"
       THEN \E n \in 0..Len(JsonDump(memo)) :
               fs' = [fs EXCEPT ![TmpPath] = File(Prefix(JsonDump(memo), n))]
       ELSE UNCHANGED fs
    /\ UNCHANGED <<IS_WINDOWS, MODE, memo, skew_history, skew_ns, tool, outcome, last,
                   issued, events, cycle, restarts, pushed, canon>>
    /\ UNCHANGED auxVars

(* The process is started again: the module-level code runs anew *)
Restart ==
    /\ pc \in EndedPcs
    /\ restarts < MaxRestarts
    /\ cycle < MaxCycles
    /\ restarts' = restarts + 1
    /\ memo' = load_memo(fs)
    /\ skew_history' = <<>>
    /\ pushed' = <<>>
    /\ skew_ns' = None
    /\ tool' = "none"
    /\ outcome' = "none"
    /\ last' = None
    /\ issued' = "none"
    /\ events' = IF load_memo_warns(fs) THEN <<"WARN">> ELSE <<>>
    /\ pc' = "main"
    /\ UNCHANGED <<IS_WINDOWS, MODE, fs, cycle, canon, diedAt>>
    /\ UNCHANGED auxVars

Next ==
    \/ Main
    \/ ProbeStart(ToolChoices(IS_WINDOWS))
    \/ Probe(ProbeOutcomes(IS_WINDOWS, SkewValues))
    \/ Fallback(StatusOutcomes(IS_WINDOWS, SkewValues))
    \/ MemoUpdate
    \/ SaveOpen(BOOLEAN)
    \/ SaveWrite(BOOLEAN)
    \/ SaveReplace(BOOLEAN)
    \/ Push
    \/ Decide
    \/ Executed(BOOLEAN)
    \/ Render
    \/ Sleep(MaxCycles)
    \/ Interrupt
    \/ Restart

Spec == Init /\ [][Next]_vars

(* The steps of the process itself: the event loop runs the one task it    *)
(* has, and a command run_cmd awaits is over by its timeout at the latest. *)
(* Nothing ends the screen command draw_tui waits for, so Render is not    *)
(* among them                                                              *)
Step ==
    \/ Main
    \/ ProbeStart(ToolChoices(IS_WINDOWS))
    \/ Probe(ProbeOutcomes(IS_WINDOWS, SkewValues))
    \/ Fallback(StatusOutcomes(IS_WINDOWS, SkewValues))
    \/ MemoUpdate
    \/ SaveOpen(BOOLEAN)
    \/ SaveWrite(BOOLEAN)
    \/ SaveReplace(BOOLEAN)
    \/ Push
    \/ Decide
    \/ Executed(BOOLEAN)
    \/ Sleep(MaxCycles)

FairSpec == Init /\ [][Next]_vars /\ WF_vars(Step)

----------------------------------------------------------------------------
(* The history over a long run: the Unix path in continuous mode, every    *)
(* measured sample numbered by its place among the pushes; the samples are *)
(* below the threshold, so no cycle awaits a corrective command            *)

HistInit ==
    /\ Init
    /\ ~IS_WINDOWS
    /\ MODE = "ultrafast"
    /\ fs[MEMO_FILE].st = "absent"

HistOutcomes ==
    {Outcome("chrony", "ok", Len(pushed) + 1, FALSE),
     Outcome("chrony", "timeout", 0, FALSE)}

HistNext ==
    \/ Main
    \/ ProbeStart({"chrony"})
    \/ Probe(HistOutcomes)
    \/ MemoUpdate
    \/ SaveOpen({TRUE})
    \/ SaveWrite({TRUE})
    \/ SaveReplace({TRUE})
    \/ Push
    \/ Decide
    \/ Render
    \/ Sleep(MaxHistCycles)

SpecHist == HistInit /\ [][HistNext]_vars

----------------------------------------------------------------------------
(* run_cmd and os.system: the cycle with each external command started,    *)
(* awaited and, where there is a timeout, given up on                      *)

MaxCmdCycles == 2

MaxWait == 16

(* timeout=None: asyncio.wait_for waits without a limit *)
NoTimeout == 0

StripchartCmd == "w32tm /stripchart /computer:time.windows.com /dataonly /samples:1"

StatusCmd == "w32tm /query /status"

ChronyCmd == "chronyc tracking"

NtpqCmd == "ntpq -c rv"

NtpdateCmd == "sudo ntpdate -u pool.ntp.org || true"

ProbeCmds == {StripchartCmd, StatusCmd, ChronyCmd, NtpqCmd}

CorrectiveCmds == {"w32tm /resync /nowait", "w32tm /resync /force",
                   "chronyc makestep 0.001 3", "chronyc makestep", NtpdateCmd}

(* os.system("cls" if IS_WINDOWS else "clear") in draw_tui *)
ClearCmd(win) == IF win THEN "cls" ELSE "clear"

ClearCmds == {ClearCmd(win) : win \in BOOLEAN}

(* The timeout each caller hands to run_cmd; 15 is run_cmd's default.      *)
(* os.system takes none                                                    *)
cmd_timeout(cmd) ==
    IF cmd \in ClearCmds THEN NoTimeout
    ELSE IF cmd = StripchartCmd THEN 10
    ELSE IF cmd \in {StatusCmd, ChronyCmd, NtpqCmd} THEN 6
    ELSE 15

(* The first command of a probe with the tool found *)
FirstProbeCmd(tl) ==
    IF tl = "w32tm" THEN StripchartCmd
    ELSE IF tl = "chrony" THEN ChronyCmd
    ELSE NtpqCmd

ToolOfCmd(cmd) ==
    IF cmd \in {StripchartCmd, StatusCmd} THEN "w32tm"
    ELSE IF cmd = ChronyCmd THEN "chrony"
    ELSE "ntpd"

(* apply_windows_* / apply_chrony_* / the ntpdate line of the unix branch *)
CorrectiveCmd(win, tl, c) ==
    IF win THEN (IF c = "small" THEN "w32tm /resync /nowait" ELSE "w32tm /resync /force")
    ELSE IF tl = "chrony"
    THEN (IF c = "small" THEN "chronyc makestep 0.001 3" ELSE "chronyc makestep")
    ELSE NtpdateCmd

(* a probe command of this cycle has been awaited *)
ProbedNow == lastCmd.at = cycle /\ lastCmd.name \in ProbeCmds

(* the status query of this cycle has been awaited *)
FallbackNow == lastCmd.at = cycle /\ lastCmd.name = StatusCmd

(* a corrective command of this cycle has been awaited *)
CorrectedNow == lastCmd.at = cycle /\ lastCmd.name \in CorrectiveCmds

(* the screen command of this cycle has ended *)
ClearedNow == lastCmd.at = cycle /\ lastCmd.name \in ClearCmds

(* the command run_cmd or os.system is called with next, where the cycle   *)
(* stands                                                                  *)
NextCmds ==
    IF pc = "probing" /\ ~ProbedNow THEN {FirstProbeCmd(tool)}
    ELSE IF pc = "fallback" /\ ~FallbackNow THEN {StatusCmd}
    ELSE IF pc = "exec" /\ ~CorrectedNow
    THEN {CorrectiveCmd(IS_WINDOWS, tool,
                        CorrectiveCommands(BandNow)[Count("Executor", events)])}
    ELSE IF pc = "render" /\ ~ClearedNow THEN {ClearCmd(IS_WINDOWS)}
    ELSE {}

(* what the output of a probe command may be, and an exception of run_cmd; *)
(* os.system returns the exit status, which draw_tui drops                 *)
ReturnKinds(cmd) ==
    IF cmd \in ClearCmds THEN {"ok"}
    ELSE IF cmd = StatusCmd
    THEN {"ok", "empty", "nomatch", "malformed", "overflow", "error"}
    ELSE IF cmd \in ProbeCmds THEN {"ok", "empty", "nomatch", "malformed", "error"}
    ELSE {"ok", "error"}

(* the timer of asyncio.wait_for has run out *)
TimerDue == cmd_timeout(running) # NoTimeout /\ waited >= cmd_timeout(running)

coreVars == <<IS_WINDOWS, MODE, fs, memo, skew_history, pc, skew_ns, tool, outcome, last,
              issued, events, cycle, restarts, pushed, canon, diedAt>>

(* create_subprocess_shell(cmd); wait_for(proc.communicate(), timeout);   *)
(* or os.system(cmd), which starts the command and waits for its end      *)
RunStart ==
    /\ running = "none"
    /\ \E cmd \in NextCmds : running' = cmd
    /\ waited' = 0
    /\ UNCHANGED <<orphans, lastCmd, coreVars, raceVars, viewVars>>

(* a time unit passes while run_cmd waits *)
Tick ==
    /\ running # "none"
    /\ ~TimerDue
    /\ waited < MaxWait
    /\ waited' = waited + 1
    /\ UNCHANGED <<running, orphans, lastCmd, coreVars, raceVars, viewVars>>

(* the command ends before the timer: run_cmd returns its output, having   *)
(* read what it wrote to stderr; or run_cmd catches an exception. What the *)
(* screen command writes goes to the terminal and is not read              *)
RunReturn ==
    /\ running # "none"
    /\ ~TimerDue
    /\ \E k \in ReturnKinds(running), e \in BOOLEAN :
          /\ (k = "error" \/ running \in ClearCmds) => ~e
          /\ lastCmd' = [name |-> running, res |-> k, at |-> cycle, stderr |-> e]
    /\ running' = "none"
    /\ waited' = 0
    /\ UNCHANGED <<orphans, coreVars, raceVars, viewVars>>

(* except asyncio.TimeoutError: log [CMD-ERR], return "": the child is     *)
(* neither killed nor waited for                                           *)
RunTimeout ==
    /\ running # "none"
    /\ TimerDue
    /\ lastCmd' = [name |-> running, res |-> "timeout", at |-> cycle, stderr |-> FALSE]
    /\ orphans' = orphans (+) SetToBag({running})
    /\ running' = "none"
    /\ waited' = 0
    /\ UNCHANGED <<coreVars, raceVars, viewVars>>

(* one of the processes left behind ends by itself *)
ChildExit ==
    /\ \E c \in BagToSet(orphans) : orphans' = orphans (-) SetToBag({c})
    /\ UNCHANGED <<running, waited, lastCmd, coreVars, raceVars, viewVars>>

(* a sample of each band *)
CmdSkews == {0, -50000, 250000000}

(* what measure_skew_* makes of the command awaited last *)
CmdOutcomes ==
    IF lastCmd.res = "ok"
    THEN {Outcome(ToolOfCmd(lastCmd.name), "ok", s, lastCmd.stderr) : s \in CmdSkews}
    ELSE {Outcome(ToolOfCmd(lastCmd.name), lastCmd.res, 0, lastCmd.stderr)}

CmdProbe ==
    /\ running = "none"
    /\ ProbedNow
    /\ Probe(CmdOutcomes)

CmdFallback ==
    /\ running = "none"
    /\ FallbackNow
    /\ Fallback(CmdOutcomes)

CmdExecuted ==
    /\ running = "none"
    /\ CorrectedNow
    /\ Executed({lastCmd.res \in {"timeout", "error"} \/ lastCmd.stderr})

CmdRender ==
    /\ running = "none"
    /\ ClearedNow
    /\ Render

(* a first start: no memo file yet *)
CmdInit ==
    /\ Init
    /\ fs[MEMO_FILE].st = "absent"

CmdStep ==
    \/ Main
    \/ ProbeStart(ToolChoices(IS_WINDOWS))
    \/ RunStart
    \/ CmdProbe
    \/ CmdFallback
    \/ MemoUpdate
    \/ SaveOpen({TRUE})
    \/ SaveWrite({TRUE})
    \/ SaveReplace({TRUE})
    \/ Push
    \/ Decide
    \/ CmdExecuted
    \/ CmdRender
    \/ Sleep(MaxCmdCycles)

CmdNext ==
    \/ CmdStep
    \/ Tick
    \/ RunReturn
    \/ RunTimeout
    \/ ChildExit

SpecCmd == CmdInit /\ [][CmdNext]_vars

(* the event loop runs the task, time passes and the timer fires; nothing  *)
(* makes a tool return                                                     *)
FairSpecCmd ==
    /\ CmdInit /\ [][CmdNext]_vars
    /\ WF_vars(CmdStep) /\ WF_vars(Tick) /\ WF_vars(RunTimeout)

----------------------------------------------------------------------------
(* save_memo in two instances that share LOG_DIR: names, inodes and the    *)
(* file each instance holds open                                           *)

MaxSaves == 2

Instances == {1, 2}

NoInode == 0

TwoSkews == {5, -50000}

(* the file a name of LOG_DIR leads to, as load_memo finds it *)
FileAt(d, path) ==
    IF d.dir[path] = NoInode THEN Absent ELSE File(d.data[d.dir[path]])

(* write(fd, text) at offset 0 of a file: what lay beyond the text stays *)
Overwrite(old, new) == new \o SubSeq(old, Len(new) + 1, Len(old))

TwoInit ==
    /\ CoreInit
    /\ ~IS_WINDOWS
    /\ MODE = "ultrafast"
    /\ fs[MEMO_FILE].st = "absent"
    /\ CmdIdle
    /\ ViewIdle
    /\ disk = [dir |-> [p \in {MEMO_FILE, TmpPath} |-> NoInode], data |-> <<>>]
    /\ savers = [i \in Instances |->
                    [pc |-> "idle", fd |-> NoInode, memo |-> EmptyDict, saves |-> 0,
                     events |-> <<>>]]

twoFrame == <<coreVars, cmdVars, viewVars>>

(* memo["last_skew_ns"] = skew_ns, then save_memo(memo) is entered *)
TwoMeasure(i) ==
    /\ savers[i].pc = "idle"
    /\ savers[i].saves < MaxSaves
    /\ \E s \in TwoSkews :
          savers' = [savers EXCEPT ![i].memo = DictSet(@, MemoKey, IntNum(s)),
                                   ![i].pc = "open",
                                   ![i].saves = @ + 1,
                                   ![i].events = <<>>]
    /\ UNCHANGED <<disk, twoFrame>>

(* open(tmp, "w"): a new file under that name, or the file that is there   *)
(* cut to nothing                                                          *)
TwoOpen(i) ==
    /\ savers[i].pc = "open"
    /\ IF disk.dir[TmpPath] = NoInode
       THEN /\ disk' = [dir |-> [disk.dir EXCEPT ![TmpPath] = Len(disk.data) + 1],
                        data |-> Append(disk.data, <<>>)]
            /\ savers' = [savers EXCEPT ![i].fd = Len(disk.data) + 1, ![i].pc = "dump"]
       ELSE /\ disk' = [disk EXCEPT !.data[disk.dir[TmpPath]] = <<>>]
            /\ savers' = [savers EXCEPT ![i].fd = disk.dir[TmpPath], ![i].pc = "dump"]
    /\ UNCHANGED twoFrame

(* json.dump(d, f): the text goes to the buffer of f *)
TwoDump(i) ==
    /\ savers[i].pc = "dump"
    /\ savers' = [savers EXCEPT ![i].pc = "close"]
    /\ UNCHANGED <<disk, twoFrame>>

(* the end of the with block: the buffer is written to the open file *)
TwoClose(i) ==
    /\ savers[i].pc = "close"
    /\ disk' = [disk EXCEPT !.data[savers[i].fd] =
                                Overwrite(@, JsonDump(savers[i].memo))]
    /\ savers' = [savers EXCEPT ![i].pc = "replace"]
    /\ UNCHANGED twoFrame

(* os.replace(tmp, MEMO_FILE); with the name gone it raises                *)
(* FileNotFoundError, which save_memo catches and logs as [WARN]           *)
TwoReplace(i) ==
    /\ savers[i].pc = "replace"
    /\ IF disk.dir[TmpPath] = NoInode
       THEN /\ UNCHANGED disk
            /\ savers' = [savers EXCEPT ![i].pc = "idle", ![i].fd = NoInode,
                                        ![i].events = Append(@, "WARN")]
       ELSE /\ disk' = [disk EXCEPT !.dir = [p \in {MEMO_FILE, TmpPath} |->
                                                 IF p = MEMO_FILE THEN disk.dir[TmpPath]
                                                 ELSE NoInode]]
            /\ savers' = [savers EXCEPT ![i].pc = "idle", ![i].fd = NoInode,
                                        ![i].events = Append(@, "Memo.save")]
    /\ UNCHANGED twoFrame

TwoNext ==
    \E i \in Instances :
        \/ TwoMeasure(i)
        \/ TwoOpen(i)
        \/ TwoDump(i)
        \/ TwoClose(i)
        \/ TwoReplace(i)

SpecTwo == TwoInit /\ [][TwoNext]_vars

----------------------------------------------------------------------------
(* measure_skew_*: from the lines a probe command printed to the sample.   *)
(* A line is the sequence of its fields; a number is kept as its text.     *)

MaxLines == 3

(* a decimal beyond the largest float: 1 and 309 zeros before the point *)
HugeText == "1000000000000000000000000000000000000000000000000000000000000000000000000000000000000000000000000000000000000000000000000000000000000000000000000000000000000000000000000000000000000000000000000000000000000000000000000000000000000000000000000000000000000000000000000000000000000000000000000000000000000000000000.0"

(* float(text): the texts that are numbers with a decimal point *)
FloatTexts == {"-0.0000500", "0.250000000", HugeText}

(* float(text) * 1e9 is inf, and int(inf) raises OverflowError *)
Overflows(text) == text = HugeText

(* int(float(text) * 1e9), where it has a value *)
SecsToNs(text) == IF text = "-0.0000500" THEN -50000 ELSE 250000000

ProbeLineSamples ==
    { <<"12:00:00", ",", "-0.0000500", "s">>,
      <<"12:00:01", ",", "0.250000000", "s">>,
      <<"12:00:02", ",", "error", ":", "0x800705B4">>,
      <<"12:00:03", ",", HugeText, "s">>,
      <<"Tracking", "time.windows.com">>,
      <<"Phase", "Offset", ":", "-0.0000500", "s">>,
      <<"Phase", "Offset", ":", "0.250000000", "s">>,
      <<"Phase", "Offset", ":", HugeText, "s">>,
      <<"Local Clock", ":", "unknown">>,
      <<"Last offset", ":", "-0.0000500", "seconds">>,
      <<"Last offset", ":", "0.250000000", "seconds">>,
      <<"Last offset", ":", HugeText, "seconds">>,
      <<"Last offset", ":">> }

ProbeOutputs == UNION {[1..n -> ProbeLineSamples] : n \in 0..MaxLines}

(* the fields after the first field equal to sep: line.split(sep, 1)[1] *)
RECURSIVE AfterFirst(_, _)
AfterFirst(line, sep) ==
    IF line = <<>> THEN <<>>
    ELSE IF Head(line) = sep THEN Tail(line)
    ELSE AfterFirst(Tail(line), sep)

(* text.rstrip("s") *)
RStripS(fields) ==
    IF fields # <<>> /\ fields[Len(fields)] = "s"
    THEN SubSeq(fields, 1, Len(fields) - 1)
    ELSE fields

HasComma(line) == "," \in Range(line)

(* the second field of a stripchart line, or None when float() or int()  *)
(* raises: except Exception                                               *)
StripchartParse(line) ==
    LET secs_text == RStripS(AfterFirst(line, ","))
    IN  IF Len(secs_text) = 1 /\ secs_text[1] \in FloatTexts
           /\ ~Overflows(secs_text[1])
        THEN Some(SecsToNs(secs_text[1]))
        ELSE None

HasOffsetLabel(line) == "Offset" \in Range(line) \/ "Local Clock" \in Range(line)

(* m = re.search(r"([-+]?\d+\.\d+)\s*s", line), then                      *)
(* int(float(m.group(1)) * 1e9) under except ValueError: an OverflowError *)
(* is not caught                                                          *)
RECURSIVE StatusSearch(_)
StatusSearch(line) ==
    IF Len(line) < 2 THEN None
    ELSE IF line[1] \in FloatTexts /\ line[2] \in {"s", "seconds"}
    THEN (IF Overflows(line[1]) THEN Raised ELSE Some(SecsToNs(line[1])))
    ELSE StatusSearch(Tail(line))

HasLastOffset(line) == "Last offset" \in Range(line)

(* line.split(":", 1)[1].strip().split()[0], or None when that, float()  *)
(* or int() raises: except Exception                                      *)
ChronyParse(line) ==
    LET value == AfterFirst(line, ":")
    IN  IF value # <<>> /\ value[1] \in FloatTexts /\ ~Overflows(value[1])
        THEN Some(SecsToNs(value[1]))
        ELSE None

(* lines = [l for l in out.splitlines() if "," in l]; last = lines[-1] *)
measure_skew_windows_stripchart(out) ==
    LET lines == SelectSeq(out, HasComma)
    IN  IF lines = <<>> THEN None ELSE StripchartParse(lines[Len(lines)])

(* for line in out.splitlines(): the first labelled line the regex        *)
(* matches gives the sample, or the OverflowError that ends the call      *)
RECURSIVE measure_skew_windows_status(_)
measure_skew_windows_status(out) ==
    IF out = <<>> THEN None
    ELSE IF HasOffsetLabel(Head(out)) /\ StatusSearch(Head(out)) # None
    THEN StatusSearch(Head(out))
    ELSE measure_skew_windows_status(Tail(out))

(* for line in out.splitlines(): return at the first "Last offset" line *)
RECURSIVE measure_skew_chrony(_)
measure_skew_chrony(out) ==
    IF out = <<>> THEN None
    ELSE IF HasLastOffset(Head(out)) THEN ChronyParse(Head(out))
    ELSE measure_skew_chrony(Tail(out))

(* the adapter that runs the command *)
measure_skew(cmd, out) ==
    IF cmd = StripchartCmd THEN measure_skew_windows_stripchart(out)
    ELSE IF cmd = StatusCmd THEN measure_skew_windows_status(out)
    ELSE measure_skew_chrony(out)

ParseInit ==
    /\ CoreInit
    /\ MODE = "ultrafast"
    /\ fs[MEMO_FILE].st = "absent"
    /\ running = "none" /\ waited = 0 /\ orphans = EmptyBag
    /\ \E cmd \in {StripchartCmd, StatusCmd, ChronyCmd} :
          /\ lastCmd = [name |-> cmd, res |-> "ok", at |-> 1, stderr |-> FALSE]
          /\ IS_WINDOWS = (cmd # ChronyCmd)
    /\ RaceIdle
    /\ probeLines \in ProbeOutputs
    /\ termWidth = 0
    /\ graph = <<>>

(* out = await run_cmd(...); the adapter returns the sample or None, or   *)
(* its exception goes up through the cycle and ends the process           *)
Parse ==
    /\ pc = "probe"
    /\ LET sample == measure_skew(lastCmd.name, probeLines)
       IN  IF sample = Raised
           THEN /\ skew_ns' = None
                /\ outcome' = "overflow"
                /\ events' = Append(events, "OverflowError")
                /\ pc' = "crashed"
           ELSE /\ skew_ns' = sample
                /\ outcome' = IF sample # None THEN "ok"
                              ELSE IF probeLines = <<>> THEN "empty"
                              ELSE "malformed"
                /\ UNCHANGED events
                /\ pc' = "parsed"
    /\ tool' = ToolOfCmd(lastCmd.name)
    /\ UNCHANGED <<IS_WINDOWS, MODE, fs, memo, skew_history, last, issued,
                   cycle, restarts, pushed, canon, diedAt>>
    /\ UNCHANGED auxVars

ParseNext ==
    \/ Main
    \/ Parse

SpecParse == ParseInit /\ [][ParseNext]_vars

----------------------------------------------------------------------------
(* render_graph: one line for the scale, one row of cells for each sample. *)

MaxBuf == 3

MaxWidth == 44

AxisCell == "¦"

NegCell == "?"

PosCell == "¦"

BlankCell == " "

RenderSamples == {0, 1, -1, 2, -3, 1000000}

(* shutil.get_terminal_size((120, 30)): the width with no terminal *)
FallbackWidth == 120

(* the widths a terminal may report *)
Widths == {1, FallbackWidth} \cup (39..MaxWidth)

(* buffers long enough for the cut to the last 40 lines *)
LongBuffers ==
    {[i \in 1..n |-> IF i = 1 THEN -3 ELSE 1] : n \in {39, 40, HISTORY_LEN}}

Buffers == UNION {[1..n -> RenderSamples] : n \in 0..MaxBuf} \cup LongBuffers

(* plot_w = max(20, width - 20) *)
PlotWidth(width) == IF width - 20 > 20 THEN width - 20 ELSE 20

(* center = plot_w // 2 *)
Center(width) == PlotWidth(width) \div 2

(* max((abs(x) for x in skew_history), default=1) *)
MaxAbs(hist) ==
    IF hist = <<>> THEN 1
    ELSE LET mags == {Abs(hist[i]) : i \in 1..Len(hist)}
         IN  CHOOSE m \in mags : \A x \in mags : x <= m

(* A non-negative integer below 2^54 as two limbs <<high, low>>, and a     *)
(* positive double as its 53-bit significand m and its exponent e: m * 2^e *)

Limb == 2^27

BigOf(n) == <<n \div Limb, n % Limb>>

(* 2 * x + bit *)
BigDouble(x, bit) ==
    <<2 * x[1] + (2 * x[2] + bit) \div Limb, (2 * x[2] + bit) % Limb>>

(* x // 2 *)
BigHalf(x) == <<x[1] \div 2, ((x[1] % 2) * Limb + x[2]) \div 2>>

BigLess(x, y) == x[1] < y[1] \/ (x[1] = y[1] /\ x[2] < y[2])

(* x - y for x >= y *)
BigMinus(x, y) ==
    IF x[2] >= y[2] THEN <<x[1] - y[1], x[2] - y[2]>>
    ELSE <<x[1] - y[1] - 1, x[2] + Limb - y[2]>>

RECURSIVE BitLen(_)
BitLen(n) == IF n = 0 THEN 0 ELSE 1 + BitLen(n \div 2)

(* one step of the long division of r by d, r < d: st is the quotient so   *)
(* far, the remainder, the significant bits still to take, the exponent    *)
DivStep(st, d) ==
    IF BigLess(BigDouble(st[2], 0), d)
    THEN <<BigDouble(st[1], 0), BigDouble(st[2], 0),
           IF st[1] = <<0, 0>> THEN st[3] ELSE st[3] - 1, st[4] - 1>>
    ELSE <<BigDouble(st[1], 1), BigMinus(BigDouble(st[2], 0), d), st[3] - 1, st[4] - 1>>

(* the quotient taken to its 53 significant bits *)
RECURSIVE DivBits(_, _)
DivBits(st, d) == IF st[3] = 0 THEN st ELSE DivBits(DivStep(st, d), d)

(* round to nearest, a tie to the even significand: m * 2^e *)
RoundNearest(st, d) ==
    LET up == \/ BigLess(d, BigDouble(st[2], 0))
              \/ (BigDouble(st[2], 0) = d /\ st[1][2] % 2 = 1)
        m1 == IF st[1][2] + 1 = Limb THEN <<st[1][1] + 1, 0>>
              ELSE <<st[1][1], st[1][2] + 1>>
    IN  IF ~up THEN [m |-> st[1], e |-> st[4]]
        ELSE IF m1[1] = Limb \div 2 THEN [m |-> BigHalf(m1), e |-> st[4] + 1]
        ELSE [m |-> m1, e |-> st[4]]

(* a / b of two positive ints: the nearest double *)
IntTrueDiv(a, b) ==
    RoundNearest(DivBits(<<BigOf(a \div b), BigOf(a % b), 53 - BitLen(a \div b), 0>>,
                         BigOf(b)),
                 BigOf(b))

(* val / scale of a positive int below 2^31 and a positive double: the     *)
(* nearest double. The division starts 21 bits down: val * 2^21 is still   *)
(* below the significand of scale                                          *)
FloatDiv(val, scale) ==
    LET r == <<val \div 64, (val % 64) * (Limb \div 64)>>
        q == RoundNearest(DivBits(<<BigOf(0), r, 53, -21>>, scale.m), scale.m)
    IN  [m |-> q.m, e |-> q.e - scale.e]

(* x // 2^n for st = <<x, n, half, sticky>>, half the bit below the result *)
(* and sticky whether any bit below that one was set: round() takes a tie  *)
(* to the even neighbour                                                   *)
RECURSIVE ShiftRound(_)
ShiftRound(st) ==
    IF st[2] = 0
    THEN st[1][1] * Limb + st[1][2]
         + (IF st[3] /\ (st[4] \/ st[1][2] % 2 = 1) THEN 1 ELSE 0)
    ELSE ShiftRound(<<BigHalf(st[1]), st[2] - 1, st[1][2] % 2 = 1, st[4] \/ st[3]>>)

(* int(round(x)) of a positive double below 2^31 *)
RoundFloat(x) == ShiftRound(<<x.m, -x.e, FALSE, FALSE>>)

(* scale = max_abs / (center - 1) if max_abs > 0 else 1: a double, or the  *)
(* int 1 held as the double 1.0, which divides to the same quotient        *)
Scale(max_abs, center) ==
    IF max_abs > 0 THEN IntTrueDiv(max_abs, center - 1)
    ELSE [m |-> <<Limb \div 4, 0>>, e |-> -52]

BarOffsetUnscaled(val, scale) == val

(* offs = int(round(val / scale)); scale is never <= 0 *)
BarOffset(val, scale) ==
    IF val = 0 THEN 0
    ELSE IF val < 0 THEN -RoundFloat(FloatDiv(-val, scale))
    ELSE RoundFloat(FloatDiv(val, scale))

Min2(a, b) == IF a < b THEN a ELSE b

Max2(a, b) == IF a > b THEN a ELSE b

(* the row of a sample: cell c + 1 is column c of range(plot_w) *)
GraphRow(offs, plot_w, center) ==
    LET left  == center + Min2(offs, 0)
        right == center + Max2(offs, 0)
    IN  [i \in 1..plot_w |->
            LET c == i - 1
            IN  IF c = center THEN AxisCell
                ELSE IF left <= c /\ c < center /\ offs < 0 THEN NegCell
                ELSE IF center < c /\ c <= right /\ offs > 0 THEN PosCell
                ELSE BlankCell]

(* f"Scale: ±{int(max_abs)} ns (center=0)" *)
HeaderLine(max_abs) == [head |-> TRUE, max_abs |-> max_abs, cells |-> <<>>]

RowLine(cells) == [head |-> FALSE, max_abs |-> 0, cells |-> cells]

(* render_graph(): the lines joined by "\n", the last 40 at most *)
render_graph(width, hist) ==
    LET plot_w  == PlotWidth(width)
        center  == Center(width)
        max_abs == MaxAbs(hist)
        scale   == Scale(max_abs, center)
        lines   == <<HeaderLine(max_abs)>>
                   \o [i \in 1..Len(hist) |->
                          RowLine(GraphRow(BarOffset(hist[i], scale), plot_w, center))]
    IN  LastN(lines, Min2(40, Len(lines)))

(* main() on a first start with the terminal as it is, or render_graph()   *)
(* called on a buffer as it stands, the empty buffer of the module included *)
RenderInit ==
    /\ CoreInit
    /\ ~IS_WINDOWS
    /\ MODE = "ultrafast"
    /\ fs[MEMO_FILE].st = "absent"
    /\ CmdIdle
    /\ RaceIdle
    /\ probeLines = <<>>
    /\ graph = <<>>
    /\ termWidth \in Widths

(* render_graph() called on a buffer as it stands *)
RenderCall ==
    /\ pc = "main"
    /\ \E buf \in Buffers : skew_history' = buf
    /\ pc' = "render"
    /\ UNCHANGED <<IS_WINDOWS, MODE, fs, memo, skew_ns, tool, outcome, last, issued,
                   events, cycle, restarts, pushed, canon, diedAt>>
    /\ UNCHANGED auxVars

(* draw_tui(): the screen command has ended; print(render_graph()) *)
DrawTui ==
    /\ pc = "render"
    /\ graph' = render_graph(termWidth, skew_history)
    /\ events' = Append(events, "Render")
    /\ pc' = "sleep"
    /\ UNCHANGED <<IS_WINDOWS, MODE, fs, memo, skew_history, skew_ns, tool, outcome, last,
                   issued, cycle, restarts, pushed, canon, diedAt>>
    /\ UNCHANGED <<cmdVars, raceVars, probeLines, termWidth>>

RenderNext ==
    \/ Main
    \/ ProbeStart({"chrony"})
    \/ Probe({Outcome("chrony", "timeout", 0, FALSE)})
    \/ RenderCall
    \/ DrawTui

SpecRender == RenderInit /\ [][RenderNext]_vars

----------------------------------------------------------------------------
(* dispatcher.py and dispatchService.py: one run of main(). svc tells the  *)
(* service variant from the dispatcher. events hold the lines the config   *)
(* and drift functions log, in order; the banner lines of main() are not   *)
(* kept. Nothing catches an exception or the interrupt of the run.         *)

MaxDispLines == 2

(* 1e3, the lower edge of the small band in dispatcher.py *)
DispThreshold == 1000

(* the lower edge of the small band: PRECISION_THRESHOLD_NS of the mode in *)
(* dispatchService.py                                                      *)
DispLowerEdge(svc) == IF svc THEN PRECISION_THRESHOLD_NS(MODE) ELSE DispThreshold

POOLS(svc) ==
    <<"pool.chrony.eu", "pool.ntp.org", "time.cloudflare.com", "time.google.com">>
    \o (IF svc THEN <<"0.europe.pool.ntpsec.org", "1.north-america.pool.ntpsec.org",
                      "2.asia.pool.ntpsec.org">>
        ELSE <<>>)

(* reg_cmds, sc query and what follows it when the service is stopped, and *)
(* the restart of the service                                              *)
WinSetupCmds ==
    <<"reg add MinPollInterval", "reg add MaxPollInterval", "reg add Type",
      "sc query w32time", "sc config w32time start= auto", "sc start w32time",
      "net stop w32time", "net start w32time">>

ResyncCmd == "w32tm /resync /force"

PeersCmd == "w32tm /query /peers"

SchtasksCmd == "schtasks /Create TimeSyncTelemetry"

(* create_windows_service: install, set and start through NSSM *)
NssmCmds == <<"nssm install TimeSyncAgent", "nssm set TimeSyncAgent", "nssm start TimeSyncAgent">>

WhichCmd(bin) == "which " \o bin

UnixTools == <<"chronyc", "ntpsec-ntpdate">>

(* the command that configures one pool *)
PoolCmd(win, tl, pool) ==
    IF win THEN "w32tm /config /manualpeerlist:" \o pool
    ELSE tl \o " -a makestep; " \o tl \o " add server " \o pool \o " iburst"

TrackingCmd(tl) == tl \o " tracking"

SourcesCmd(tl) == tl \o " sources -v"

(* the command after cmd in a straight run of commands *)
NextOf(cmds, cmd) == cmds[(CHOOSE i \in 1..Len(cmds) : cmds[i] = cmd) + 1]

(* what run_cmd may return to the config functions: nothing, some text, or *)
(* a text with STOPPED in it                                               *)
ConfigOutputs == {"", "text", "STOPPED"}

(* the [CMD-ERR] lines of one run that come from its config commands, at  *)
(* most                                                                    *)
MaxConfigErrs == 1

(* the [CMD-ERR] lines of the log that a config command left: the line of  *)
(* the probe stands right after "Probe", the line of a corrective command  *)
(* of the drift function right after "Executor"                            *)
ConfigErrCount(log) ==
    Cardinality({i \in 1..Len(log) :
                    /\ log[i] = "CMD-ERR"
                    /\ (i = 1 \/ log[i - 1] \notin {"Probe", "Executor"})})

(* whether the command run_cmd returns from wrote to stderr: any config    *)
(* command may, before or after the drift function, as long as the config  *)
(* commands of the run have left fewer than MaxConfigErrs such lines       *)
ConfigErrs(log) ==
    IF ConfigErrCount(log) < MaxConfigErrs THEN BOOLEAN ELSE {FALSE}

Then(next, log) == [next |-> next, log |-> log]

(* the probe of the drift function: dispatcher.py asks chronyc whatever    *)
(* unix_config found, dispatchService.py asks the tool found               *)
DriftProbeCmd(svc, win, tl) ==
    IF win THEN StripchartCmd
    ELSE IF svc THEN TrackingCmd(tl)
    ELSE ChronyCmd

(* windows_config() / unix_config() after cmd returned out: the lines      *)
(* logged and the command awaited next; "drift" when the drift function is *)
(* entered, "end" when main() is over                                      *)
ConfigStep(svc, win, tl, cmd, out) ==
    LET pools  == POOLS(svc)
        isPool == \E i \in 1..Len(pools) : PoolCmd(win, tl, pools[i]) = cmd
        k      == CHOOSE i \in 1..Len(pools) : PoolCmd(win, tl, pools[i]) = cmd
        report == IF win THEN StatusCmd ELSE TrackingCmd(tl)
        intro  == IF win THEN <<"Telemetry">> ELSE <<>>
    IN  IF isPool
        THEN IF out # "" THEN Then(IF win THEN ResyncCmd ELSE report, <<"OK">>)
             ELSE IF k < Len(pools) THEN Then(PoolCmd(win, tl, pools[k + 1]), <<"FAIL">>)
             ELSE Then(report, <<"FAIL", "FAIL">> \o intro)
        ELSE IF cmd = "sc query w32time"
        THEN IF out = "STOPPED" THEN Then(NextOf(WinSetupCmds, cmd), <<"WARN">>)
             ELSE Then("net stop w32time", <<>>)
        ELSE IF cmd = "net start w32time" THEN Then(PoolCmd(win, tl, pools[1]), <<>>)
        ELSE IF cmd \in Range(WinSetupCmds) THEN Then(NextOf(WinSetupCmds, cmd), <<>>)
        ELSE IF cmd = ResyncCmd THEN Then(StatusCmd, intro)
        ELSE IF cmd = StatusCmd THEN Then(PeersCmd, <<>>)
        ELSE IF cmd = PeersCmd
        THEN Then(IF svc THEN "drift" ELSE SchtasksCmd, <<"Telemetry.written">>)
        ELSE IF cmd = SchtasksCmd THEN Then("drift", <<"TASK">>)
        ELSE IF cmd = NssmCmds[Len(NssmCmds)] THEN Then("end", <<"TASK">>)
        ELSE IF cmd \in Range(NssmCmds) THEN Then(NextOf(NssmCmds, cmd), <<>>)
        ELSE IF cmd = WhichCmd(UnixTools[2])
        THEN IF out # "" THEN Then(PoolCmd(win, tl, pools[1]), <<>>)
             ELSE Then(IF svc THEN "end" ELSE "drift", <<"ERR">>)
        ELSE IF cmd = WhichCmd(UnixTools[1])
        THEN IF out # "" THEN Then(PoolCmd(win, tl, pools[1]), <<>>)
             ELSE Then(WhichCmd(UnixTools[2]), <<>>)
        ELSE IF cmd = TrackingCmd(tl) THEN Then(SourcesCmd(tl), <<>>)
        ELSE Then("drift", <<"Telemetry.written">>)

(* the lines of the stripchart and of the tracking report *)
DispLineSamples ==
    {line \in ProbeLineSamples :
        HasComma(line) \/ HasLastOffset(line) \/ "Tracking" \in Range(line)}

DispOutputs == UNION {[1..n -> DispLineSamples] : n \in 0..MaxDispLines}

(* the fields up to the next field equal to sep *)
RECURSIVE BeforeFirst(_, _)
BeforeFirst(fields, sep) ==
    IF fields = <<>> \/ Head(fields) = sep THEN <<>>
    ELSE <<Head(fields)>> \o BeforeFirst(Tail(fields), sep)

(* float("inf") where the skew is kept as a float: above every sample *)
FloatInf == 2147483647

(* float(text) * 1e9: no int() is taken, and a decimal beyond the largest  *)
(* float gives inf                                                         *)
SecsToNsFloat(text) == IF Overflows(text) THEN FloatInf ELSE SecsToNs(text)

(* float(offset_line.split(",")[1].strip().replace("s", "")) * 1e9, or the *)
(* exception it raises                                                     *)
DispLineValue(line) ==
    LET field == BeforeFirst(AfterFirst(line, ","), ",")
        text  == SelectSeq(field, LAMBDA f : f # "s")
    IN  IF Len(text) = 1 /\ text[1] \in FloatTexts
        THEN Some(SecsToNsFloat(text[1]))
        ELSE None

(* float(line.split(":")[1].split()[0]) * 1e9, or the exception it raises *)
DispUnixLineValue(line) ==
    LET field == BeforeFirst(AfterFirst(line, ":"), ":")
    IN  IF field # <<>> /\ field[1] \in FloatTexts
        THEN Some(SecsToNsFloat(field[1]))
        ELSE None

(* drift_correction_windows: the last line with a comma;                   *)
(* drift_correction_unix: the first line with "Last offset", None without  *)
(* one; except Exception: skew_ns = None                                   *)
disp_parse_skew(win, out) ==
    IF win
    THEN IF SelectSeq(out, HasComma) = <<>> THEN None
         ELSE DispLineValue(SelectSeq(out, HasComma)[Len(SelectSeq(out, HasComma))])
    ELSE IF SelectSeq(out, HasLastOffset) = <<>> THEN None
         ELSE DispUnixLineValue(SelectSeq(out, HasLastOffset)[1])

(* json.dump({"last_skew_ns": skew_ns}, f) with skew_ns a float; inf is   *)
(* written as Infinity                                                     *)
DispMemoText(n) ==
    JsonDump(DictOf(<<Item(MemoKey, IF n = FloatInf THEN JsonInf(FALSE)
                                    ELSE IntToFloat(n))>>))

(* what main() goes on to when the drift function returns *)
AfterDrift(svc) == IF svc /\ IS_WINDOWS THEN "d_service" ELSE "exited"

(* neither program loads the memo when it starts *)
DispStart ==
    /\ StartState(DispMemoFiles)
    /\ memo = EmptyDict
    /\ events = <<>>
    /\ CmdIdle
    /\ RaceIdle
    /\ ViewIdle

(* dispatcher.py takes no mode *)
DispInit == DispStart /\ MODE = "fast"

SvcInit == DispStart

dispFrame == <<IS_WINDOWS, MODE, memo, skew_history, cycle, restarts, pushed, canon,
               waited, orphans, lastCmd, raceVars, termWidth, graph>>

(* main(): windows_config() or unix_config() is entered, logs its first    *)
(* line and awaits its first command                                       *)
DispMain ==
    /\ pc = "main"
    /\ events' = <<"Config">>
    /\ running' = IF IS_WINDOWS THEN WinSetupCmds[1] ELSE WhichCmd(UnixTools[1])
    /\ pc' = "config"
    /\ UNCHANGED <<fs, skew_ns, tool, outcome, last, issued, probeLines, diedAt,
                   dispFrame>>

(* run_cmd returns to the config function, with a [CMD-ERR] line when the  *)
(* command wrote to stderr; the function goes on to its next await. The    *)
(* forced resync and the makestep of a pool command are corrective         *)
(* commands of their own; the drift function starts with none issued       *)
DispConfig(svc) ==
    /\ pc = "config"
    /\ \E out \in ConfigOutputs, err \in ConfigErrs(events) :
          LET tl == IF out # "" /\ running = WhichCmd(UnixTools[1]) THEN UnixTools[1]
                    ELSE IF out # "" /\ running = WhichCmd(UnixTools[2]) THEN UnixTools[2]
                    ELSE tool
              st == ConfigStep(svc, IS_WINDOWS, tl, running, out)
          IN  /\ tool' = tl
              /\ events' = events \o CmdErrLog(err) \o st.log
                           \o (IF st.next = "drift" THEN <<"Probe">> ELSE <<>>)
              /\ running' = IF st.next = "drift" THEN DriftProbeCmd(svc, IS_WINDOWS, tl)
                            ELSE IF st.next = "end" THEN "none"
                            ELSE st.next
              /\ pc' = IF st.next = "drift" THEN "probing"
                       ELSE IF st.next = "end" THEN "exited"
                       ELSE "config"
              /\ issued' = IF st.next = "drift" THEN "none"
                           ELSE IF running = ResyncCmd
                                   \/ (~IS_WINDOWS /\ \E i \in 1..Len(POOLS(svc)) :
                                          running = PoolCmd(FALSE, tool, POOLS(svc)[i]))
                           THEN "force"
                           ELSE issued
    /\ UNCHANGED <<fs, skew_ns, outcome, last, probeLines, diedAt, dispFrame>>

(* output = await run_cmd(...) returns, with a [CMD-ERR] line when the     *)
(* command wrote to stderr; then the try / except, which on Windows logs   *)
(* [WARN] when it finds no skew                                            *)
DispMeasure ==
    /\ pc = "probing"
    /\ \E out \in DispOutputs, err \in BOOLEAN :
          LET ns == disp_parse_skew(IS_WINDOWS, out)
          IN  /\ probeLines' = out
              /\ skew_ns' = ns
              /\ outcome' = IF ns # None THEN "ok"
                            ELSE IF out = <<>> THEN "empty"
                            ELSE "malformed"
              /\ events' = events \o CmdErrLog(err)
                           \o (IF ns = None /\ IS_WINDOWS THEN <<"WARN">> ELSE <<>>)
    /\ running' = "none"
    /\ pc' = IF IS_WINDOWS THEN "d_load" ELSE "d_decide"
    /\ UNCHANGED <<fs, tool, last, issued, diedAt, dispFrame>>

(* if os.path.exists(MEMO_FILE): data = json.load(f); data.get(...):       *)
(* nothing catches what open, json.load or data.get raise                  *)
DispLoad ==
    /\ pc = "d_load"
    /\ LET f == fs[MEMO_FILE]
       IN  IF f.st = "absent"
           THEN /\ last' = Some(IntNum(0))
                /\ pc' = "d_decide"
                /\ UNCHANGED events
           ELSE IF f.st = "unreadable"
           THEN /\ pc' = "crashed"
                /\ events' = Append(events, "PermissionError")
                /\ UNCHANGED last
           ELSE IF ~JsonLoad(f.text).ok
           THEN /\ pc' = "crashed"
                /\ events' = Append(events, "JSONDecodeError")
                /\ UNCHANGED last
           ELSE IF JsonLoad(f.text).val.type # "dict"
           THEN /\ pc' = "crashed"
                /\ events' = Append(events, "AttributeError")
                /\ UNCHANGED last
           ELSE /\ last' = Some(DictGet(JsonLoad(f.text).val, MemoKey, IntNum(0)))
                /\ pc' = "d_decide"
                /\ UNCHANGED events
    /\ UNCHANGED <<fs, skew_ns, tool, outcome, issued, running, probeLines, diedAt,
                   dispFrame>>

(* if skew_ns is not None: the line with the skew, which on Windows        *)
(* formats the memo's value with :.0f and raises when that is no number;   *)
(* then the if / elif / else, which awaits the command of its band; with   *)
(* no skew the function is over                                            *)
DispDecide(svc) ==
    /\ pc = "d_decide"
    /\ IF skew_ns = None
       THEN /\ pc' = AfterDrift(svc)
            /\ UNCHANGED <<events, running>>
       ELSE IF IS_WINDOWS /\ ~IsNumber(last[1])
       THEN /\ pc' = "crashed"
            /\ events' = Append(events, IF last[1].type = "str" THEN "ValueError"
                                        ELSE "TypeError")
            /\ UNCHANGED running
       ELSE LET cmds == CorrectiveCommands(Decision(Abs(skew_ns[1]), DispLowerEdge(svc)))
            IN  IF cmds = <<>>
                THEN /\ events' = Append(events, "Decision")
                     /\ pc' = IF IS_WINDOWS THEN "d_save" ELSE AfterDrift(svc)
                     /\ UNCHANGED running
                ELSE /\ events' = events \o <<"Decision", "Executor">>
                     /\ pc' = "exec"
                     /\ running' = cmds[1]
    /\ UNCHANGED <<fs, skew_ns, tool, outcome, last, issued, probeLines, diedAt,
                   dispFrame>>

(* run_cmd returns to the branch, with a [CMD-ERR] line when the command   *)
(* wrote to stderr; then log("[INFO] Applied ...")                         *)
DispExecuted(svc) ==
    /\ pc = "exec"
    /\ issued' = running
    /\ \E err \in BOOLEAN :
          events' = events \o CmdErrLog(err) \o <<ActionLog(running)>>
    /\ running' = "none"
    /\ pc' = IF IS_WINDOWS THEN "d_save" ELSE AfterDrift(svc)
    /\ UNCHANGED <<fs, skew_ns, tool, outcome, last, probeLines, diedAt, dispFrame>>

(* with open(MEMO_FILE, "w") as f: json.dump({"last_skew_ns": skew_ns}, f) *)
(* open cuts the file to nothing and the text is written into it; a        *)
(* process stopped on the way leaves a part of the text                    *)
DispSave(svc) ==
    /\ pc = "d_save"
    /\ IF fs[MEMO_FILE].st = "unreadable"
       THEN /\ pc' = "crashed"
            /\ events' = Append(events, "PermissionError")
            /\ UNCHANGED <<fs, diedAt>>
       ELSE \E n \in 0..Len(DispMemoText(skew_ns[1])) :
               /\ fs' = [fs EXCEPT ![MEMO_FILE] = File(Prefix(DispMemoText(skew_ns[1]), n))]
               /\ IF n = Len(DispMemoText(skew_ns[1]))
                  THEN /\ events' = Append(events, "Memo.save")
                       /\ pc' = AfterDrift(svc)
                       /\ UNCHANGED diedAt
                  ELSE /\ pc' = "interrupted"
                       /\ diedAt' = "d_save"
                       /\ UNCHANGED events
    /\ UNCHANGED <<skew_ns, tool, outcome, last, issued, running, probeLines, dispFrame>>

(* create_windows_service(): with NSSM in its place the install command is *)
(* awaited, without it a [WARN] line and main() is over                    *)
DispService ==
    /\ pc = "d_service"
    /\ \E nssm \in BOOLEAN :
          IF nssm
          THEN /\ running' = NssmCmds[1]
               /\ pc' = "config"
               /\ UNCHANGED events
          ELSE /\ events' = Append(events, "WARN")
               /\ pc' = "exited"
               /\ UNCHANGED running
    /\ UNCHANGED <<fs, skew_ns, tool, outcome, last, issued, probeLines, diedAt,
                   dispFrame>>

(* dispatcher.py; Interrupt is the run stopped while it awaits a command *)
DispNext ==
    \/ DispMain
    \/ DispConfig(FALSE)
    \/ DispMeasure
    \/ DispLoad
    \/ DispDecide(FALSE)
    \/ DispExecuted(FALSE)
    \/ DispSave(FALSE)
    \/ Interrupt

SpecDisp == DispInit /\ [][DispNext]_vars

(* dispatchService.py *)
SvcNext ==
    \/ DispMain
    \/ DispConfig(TRUE)
    \/ DispMeasure
    \/ DispLoad
    \/ DispDecide(TRUE)
    \/ DispExecuted(TRUE)
    \/ DispSave(TRUE)
    \/ DispService
    \/ Interrupt

SpecSvc == SvcInit /\ [][SvcNext]_vars

----------------------------------------------------------------------------
(* driftMonitor.py: the earlier monitor, which shares memo.json. It acts   *)
(* on Windows only, measures with the status query alone, takes 0 for a    *)
(* sample it could not read, and rewrites the memo file in place.          *)

(* HISTORY_LEN of driftMonitor.py *)
MonHistoryLen == 50

(* if abs(skew_ns) < 1_000_000: gradual resync; elif abs(skew_ns) >        *)
(* 100_000_000: forced step; else no action                                *)
MonDecision(abs_skew) ==
    IF abs_skew < 1000000 THEN "SmallAdjust"
    ELSE IF abs_skew > 100000000 THEN "ForceStep"
    ELSE "NoAction"

(* run_cmd of driftMonitor.py waits without a timeout and logs nothing *)
MonOutcomes ==
    {out \in ProbeOutcomes(TRUE, SkewValues \cup {2000000000}) : out.kind # "timeout"}

(* shutil.get_terminal_size((80, 20)): the width with no terminal *)
MonFallbackWidth == 80

(* the widths a terminal may report *)
MonWidths == {1, 2, 3, MonFallbackWidth}

(* the characters of a row of driftMonitor.py, each named by its code     *)
(* point: the vertical line of the axis, the lower half block of a        *)
(* positive sample, the upper half block of a negative one                *)
MonAxisCell == "U+2502"

MonPosCell == "U+2584"

MonNegCell == "U+2580"

(* max([abs(x) for x in skew_history] + [1]) *)
MonMaxVal(hist) == Max2(1, MaxAbs(hist))

(* x // 2^n for st = <<x, n>> *)
RECURSIVE ShiftDown(_)
ShiftDown(st) ==
    IF st[2] = 0 THEN st[1][1] * Limb + st[1][2]
    ELSE ShiftDown(<<BigHalf(st[1]), st[2] - 1>>)

(* int(x) of a positive double below 2^31: the fraction is cut off *)
TruncFloat(x) == ShiftDown(<<x.m, -x.e>>)

(* scale = max_val / (cols//2), a double *)
MonScale(max_val, half) == IntTrueDiv(max_val, half)

(* offset = int(val / scale) if scale > 0 else 0; scale is never <= 0 *)
MonOffset(val, scale) ==
    IF val = 0 THEN 0
    ELSE IF val < 0 THEN -TruncFloat(FloatDiv(-val, scale))
    ELSE TruncFloat(FloatDiv(val, scale))

(* the row of a sample: cell c + 1 is line[c]; the axis is set first, and  *)
(* the run of a positive sample starts on it                               *)
MonGraphRow(offs, cols) ==
    LET center == cols \div 2
        stop   == Min2(center + offs, cols - 1)
    IN  [i \in 1..cols |->
            LET c == i - 1
            IN  IF offs > 0 /\ center <= c /\ c < stop THEN MonPosCell
                ELSE IF offs < 0 /\ center + offs <= c /\ c < center THEN MonNegCell
                ELSE IF c = center THEN MonAxisCell
                ELSE BlankCell]

(* render_graph() of driftMonitor.py: the rows joined by "\n"; cols//2 is *)
(* not 0                                                                   *)
mon_render_graph(cols, hist) ==
    LET scale == MonScale(MonMaxVal(hist), cols \div 2)
    IN  [i \in 1..Len(hist) |-> MonGraphRow(MonOffset(hist[i], scale), cols)]

(* the module-level code: load_memo() gives {} without a log when the      *)
(* file is missing or does not load; the terminal is as it is              *)
MonInit ==
    /\ StartState(InitialMemoFiles)
    /\ memo = load_memo(fs)
    /\ events = <<>>
    /\ CmdIdle
    /\ RaceIdle
    /\ probeLines = <<>>
    /\ graph = <<>>
    /\ termWidth \in MonWidths

(* main(): on Windows drift_correction_windows() is entered and awaits the *)
(* status query; on another platform the pass does nothing                 *)
MonMain ==
    /\ pc = "main"
    /\ cycle' = cycle + 1
    /\ pc' = IF IS_WINDOWS THEN "probing" ELSE AfterCheck
    /\ UNCHANGED <<IS_WINDOWS, MODE, fs, memo, skew_history, skew_ns, tool, outcome, last,
                   issued, events, restarts, pushed, canon, diedAt>>
    /\ UNCHANGED auxVars

(* measure_skew_windows() returns the sample, 0 without a line it can      *)
(* read; memo.get, skew_history.append, the log of the branch taken, and   *)
(* the corrective command of the branch is started; with no command the    *)
(* memo is set and save_memo entered                                       *)
MonMeasure ==
    /\ pc = "probing"
    /\ \E out \in MonOutcomes :
          LET ns   == IF out.kind = "ok" THEN out.ns ELSE 0
              band == MonDecision(Abs(ns))
              cmds == CorrectiveCommands(band)
          IN  /\ outcome' = out.kind
              /\ skew_ns' = Some(ns)
              /\ IF memo.type # "dict"
                 THEN /\ events' = <<"Probe", "AttributeError">>
                      /\ pc' = "crashed"
                      /\ UNCHANGED <<memo, last, skew_history, pushed>>
                 ELSE /\ last' = Some(DictGet(memo, MonMemoKey, IntNum(0)))
                      /\ skew_history' = IF Len(skew_history) >= MonHistoryLen
                                         THEN Append(Tail(skew_history), ns)
                                         ELSE Append(skew_history, ns)
                      /\ pushed' = Append(pushed, ns)
                      /\ events' = <<"Probe", "History.push">>
                                   \o (IF band = "ForceStep" THEN <<"WARN">>
                                       ELSE <<"Decision">>)
                                   \o (IF cmds = <<>> THEN <<>> ELSE <<"Executor">>)
                      /\ memo' = IF cmds = <<>> THEN DictSet(memo, MonMemoKey, IntNum(ns))
                                 ELSE memo
                      /\ pc' = IF cmds = <<>> THEN "save_in_place" ELSE "exec"
    /\ tool' = "w32tm"
    /\ issued' = "none"
    /\ UNCHANGED <<IS_WINDOWS, MODE, fs, cycle, restarts, canon, diedAt>>
    /\ UNCHANGED auxVars

(* the corrective command is over, whatever it gave; memo["last_skew"] =   *)
(* skew_ns and save_memo is entered                                        *)
MonExecuted ==
    /\ pc = "exec"
    /\ issued' = CorrectiveCommands(MonDecision(Abs(skew_ns[1])))[1]
    /\ memo' = DictSet(memo, MonMemoKey, IntNum(skew_ns[1]))
    /\ pc' = "save_in_place"
    /\ UNCHANGED <<IS_WINDOWS, MODE, fs, skew_history, skew_ns, tool, outcome, last,
                   events, cycle, restarts, pushed, canon, diedAt>>
    /\ UNCHANGED auxVars

(* save_memo: open(MEMO_FILE, "w") cuts the file to nothing and json.dump  *)
(* writes the text into it; a process stopped on the way leaves a part of  *)
(* the text; nothing catches what open raises                              *)
MonSave ==
    /\ pc = "save_in_place"
    /\ IF fs[MEMO_FILE].st = "unreadable"
       THEN /\ events' = Append(events, "PermissionError")
            /\ pc' = "crashed"
            /\ UNCHANGED <<fs, canon, diedAt>>
       ELSE \E n \in 0..Len(JsonDump(memo)) :
               /\ fs' = [fs EXCEPT ![MEMO_FILE] = File(Prefix(JsonDump(memo), n))]
               /\ IF n = Len(JsonDump(memo))
                  THEN /\ events' = Append(events, "Memo.save")
                       /\ pc' = AfterCheck
                       /\ canon' = fs'[MEMO_FILE]
                       /\ UNCHANGED diedAt
                  ELSE /\ pc' = "interrupted"
                       /\ diedAt' = "save_in_place"
                       /\ UNCHANGED <<events, canon>>
    /\ UNCHANGED <<IS_WINDOWS, MODE, memo, skew_history, skew_ns, tool, outcome, last,
                   issued, cycle, restarts, pushed>>
    /\ UNCHANGED auxVars

(* draw_tui(): os.system("cls" or "clear") has returned; render_graph()  *)
(* divides by cols//2, which is 0 on a terminal one column wide: nothing  *)
(* catches the ZeroDivisionError and asyncio.run(main()) ends with it;    *)
(* otherwise the frame is printed                                         *)
MonDraw ==
    /\ pc = "render"
    /\ IF termWidth \div 2 = 0
       THEN /\ events' = Append(events, "ZeroDivisionError")
            /\ pc' = "crashed"
            /\ UNCHANGED graph
       ELSE /\ graph' = mon_render_graph(termWidth, skew_history)
            /\ events' = Append(events, "Render")
            /\ pc' = "sleep"
    /\ UNCHANGED <<IS_WINDOWS, MODE, fs, memo, skew_history, skew_ns, tool, outcome, last,
                   issued, cycle, restarts, pushed, canon, diedAt>>
    /\ UNCHANGED <<cmdVars, raceVars, probeLines, termWidth>>

(* await asyncio.sleep(CHECK_INTERVAL), then the next turn of while True:  *)
(* on Windows drift_correction_windows() awaits the status query, on       *)
(* another platform the turn goes straight to draw_tui()                   *)
MonSleep ==
    /\ pc = "sleep"
    /\ cycle < MaxCycles
    /\ cycle' = cycle + 1
    /\ pc' = IF IS_WINDOWS THEN "probing" ELSE "render"
    /\ UNCHANGED <<IS_WINDOWS, MODE, fs, memo, skew_history, skew_ns, tool, outcome, last,
                   issued, events, restarts, pushed, canon, diedAt>>
    /\ UNCHANGED auxVars

MonNext ==
    \/ MonMain
    \/ MonMeasure
    \/ MonExecuted
    \/ MonSave
    \/ MonDraw
    \/ MonSleep
    \/ Interrupt

SpecMon == MonInit /\ [][MonNext]_vars

----------------------------------------------------------------------------
(* What a cycle that has ended left behind *)

CycleOverPcs == {"render", "sleep", "exited", "crashed"}

BandCommand(band) ==
    IF band = "SmallAdjust" THEN "small"
    ELSE IF band = "ForceStep" THEN "force"
    ELSE "none"

LoadOf(f) == load_memo([p \in {MEMO_FILE} |-> f])

(* the cycle is at its probe: before it, or awaiting one of its commands *)
ProbePcs == {"probe", "probing", "fallback"}

(* C1: in every cycle whose probe gave a sample s, the corrective command  *)
(* issued is the one of the band of |s| and the mode's threshold: the      *)
(* small adjustment iff t < |s| < 1_000_000, the forced step iff           *)
(* 100_000_000 < |s| < 1_000_000_000, none otherwise. (Stated for a        *)
(* process whose memo loaded as a dict.)                                   *)
C1_CommandIsBandOfSkew ==
    (pc \in CycleOverPcs /\ outcome = "ok" /\ memo.type = "dict")
        => issued = BandCommand(Decision(Abs(skew_ns[1]), PRECISION_THRESHOLD_NS(MODE)))

(* C2: for the threshold t of the mode in force, |s| = t is NoAction,      *)
(* |s| = t + 1 is SmallAdjust, |s| = 1_000_000 is NoAction and             *)
(* |s| = 1_000_000_000 is NoAction.                                        *)
C2_BoundaryBands ==
    LET t == PRECISION_THRESHOLD_NS(MODE)
    IN  /\ Decision(t, t) = "NoAction"
        /\ Decision(t + 1, t) = "SmallAdjust"
        /\ Decision(1000000, t) = "NoAction"
        /\ Decision(1000000000, t) = "NoAction"

(* C3: the threshold of the mode selected at startup is below 1_000_000,   *)
(* whichever preset it is.                                                 *)
C3_ThresholdBelowSmallBand == PRECISION_THRESHOLD_NS(MODE) < 1000000

(* C4: in a cycle that issued a corrective command, the memo save and the  *)
(* history append come after the command (Executor) of that cycle.         *)
C4_SaveAndPushAfterCommand ==
    issued # "none" =>
        \A i \in 1..Len(events) :
            events[i] \in {"Memo.save", "History.push"}
                => \E j \in 1..(i - 1) : events[j] = "Executor"

(* C5: a cycle whose probe fails issues no corrective command, saves no    *)
(* memo, leaves the memo, the memo file and the history as they were, logs *)
(* a warning, and goes on to the render and the next cycle (or to the end  *)
(* of a one-shot run).                                                     *)
C5_FailedProbeSkipsCycle ==
    [][ /\ (pc \in ProbePcs /\ pc' \notin ProbePcs \cup {"interrupted"} /\ outcome' # "ok")
            => /\ pc' = AfterCheck
               /\ issued' = "none"
               /\ "WARN" \in Range(events')
               /\ "Memo.save" \notin Range(events')
               /\ "Executor" \notin Range(events')
               /\ memo' = memo /\ fs' = fs /\ skew_history' = skew_history
        /\ (pc \in {"render", "sleep"} /\ outcome \notin {"ok", "none"}
                /\ pc' # "interrupted")
            => /\ pc' \in {"sleep", "probe"}
               /\ issued' = "none"
               /\ "Memo.save" \notin Range(events')
               /\ "Executor" \notin Range(events')
               /\ memo' = memo /\ fs' = fs /\ skew_history' = skew_history
      ]_vars

(* C6: in continuous mode, on either platform, every cycle is followed by  *)
(* a render, and every sleep by the next cycle, unless the process is      *)
(* interrupted from outside. (Stated for a process whose memo loaded as a  *)
(* dict.)                                                                  *)
C6_CycleRendersAndLoops ==
    /\ (MODE = "ultrafast" /\ pc = "probe" /\ memo.type = "dict")
           ~> (pc \in {"render", "interrupted"})
    /\ (MODE = "ultrafast" /\ pc = "sleep" /\ cycle < MaxCycles)
           ~> (pc \in {"probe", "interrupted"})

(* C7: the history never holds more than HISTORY_LEN samples, and it holds *)
(* the last HISTORY_LEN samples pushed (the seeds included), oldest first. *)
C7_HistoryIsLastPushes ==
    /\ Len(skew_history) <= HISTORY_LEN
    /\ skew_history = LastN(pushed, HISTORY_LEN)

C7_Witness ==
    /\ Len(pushed) > HISTORY_LEN + 1
    /\ Len(skew_history) = HISTORY_LEN
    /\ skew_history[1] = Len(pushed) - HISTORY_LEN + 1
    /\ skew_history[HISTORY_LEN] = Len(pushed)

(* C8: while save_memo is between opening the temporary file and the end   *)
(* of the rename, the canonical memo file is the one save_memo found; so   *)
(* is it when the process is interrupted there, and the memo loaded after  *)
(* the restart is the memo of that file.                                   *)
C8_InterruptedSaveKeepsMemo ==
    /\ pc \in SavePcs => fs[MEMO_FILE] = canon
    /\ (pc = "interrupted" /\ diedAt \in SavePcs)
           => /\ fs[MEMO_FILE] = canon
              /\ JsonEq(load_memo(fs), LoadOf(canon))
    /\ (pc = "main" /\ diedAt \in SavePcs) => JsonEq(memo, LoadOf(canon))

C8_Witness ==
    /\ pc = "interrupted"
    /\ diedAt = "save_write"
    /\ fs[TmpPath].st = "file"
    /\ Len(fs[TmpPath].text) > 0
    /\ Len(fs[TmpPath].text) < Len(JsonDump(memo))
    /\ canon.st = "file"
    /\ HasKey(LoadOf(canon), MemoKey)
    /\ ~JsonEq(LoadOf(canon), memo)

(* C9: whatever the memo file held at startup, no cycle fails on reading   *)
(* the previous skew from the memo loaded from it.                         *)
C9_MemoReadNeverFails ==
    ~(pc = "crashed" /\ "AttributeError" \in Range(events))

(* C10: once save_memo(memo) has succeeded, load_memo() gives a memo equal *)
(* to memo, in the same process and in the process started next.           *)
C10_MemoRoundTrip ==
    [][ /\ "Memo.save" \in Range(events') => JsonEq(load_memo(fs'), memo')
        /\ (pc \in EndedPcs /\ pc' = "main" /\ "Memo.save" \in Range(events))
               => JsonEq(memo', memo)
      ]_vars

C10_Witness ==
    /\ pc = "main"
    /\ restarts = 1
    /\ DictGet(memo, MemoKey, IntNum(0)) = IntNum(-50000)
    /\ HasKey(memo, MonMemoKey)

(* C11: a cycle issues at most one corrective command: never the small     *)
(* adjustment and the forced step both, never one of them twice, and none  *)
(* when the band is NoAction or the probe failed.                          *)
C11_AtMostOneCommand ==
    LET executors == Count("Executor", events)
        commands == Count("ACTION small", events) + Count("ACTION force", events)
    IN  /\ executors <= 1
        /\ commands <= executors
        /\ pc \in CycleOverPcs => commands = executors
        /\ (outcome # "ok") => executors = 0
        /\ (outcome = "ok" /\ pc \in CycleOverPcs
               /\ Decision(Abs(skew_ns[1]), PRECISION_THRESHOLD_NS(MODE)) = "NoAction")
               => executors = 0

C11_Witness ==
    /\ pc = "sleep"
    /\ cycle = 2
    /\ issued = "small"
    /\ Count("Executor", events) = 1
    /\ Count("ACTION small", events) = 1

(* C12: every external command the loop waits for, those of run_cmd and    *)
(* the screen command of draw_tui alike, has a timeout (6 to 15 time       *)
(* units) and is given up on when it has passed; the expiry returns to the *)
(* caller with the process alive, a probe that ends on it gives no sample  *)
(* and skips the cycle, no command is waited for for ever, and the cycle   *)
(* always gets past its probe and its corrective command.                  *)
C12_CommandsAreBounded ==
    /\ [](running # "none"
            => /\ cmd_timeout(running) \in 6..15
               /\ waited <= cmd_timeout(running))
    /\ [][ /\ (running # "none" /\ waited = cmd_timeout(running) /\ waited' # waited)
               => /\ running' = "none"
                  /\ lastCmd' = [name |-> running, res |-> "timeout", at |-> cycle,
                                 stderr |-> FALSE]
                  /\ pc' = pc
           /\ (pc \in {"probing", "fallback"} /\ pc' \notin {"probing", "fallback"}
                   /\ lastCmd.res = "timeout")
               => /\ skew_ns' = None
                  /\ outcome' = "timeout"
                  /\ "CMD-ERR" \in Range(events')
                  /\ pc' = AfterCheck
           /\ (pc = "exec" /\ pc' # "exec" /\ lastCmd.res = "timeout")
               => /\ "CMD-ERR" \in Range(events')
                  /\ pc' = AfterCheck
         ]_vars
    /\ (running # "none") ~> (running = "none")
    /\ (pc \in ProbePcs) ~> (pc \notin ProbePcs)
    /\ (pc \in {"decide", "exec"}) ~> (pc \notin {"decide", "exec"})

(* C13: no two commands of one instance run at the same time: when run_cmd *)
(* starts or awaits a command, no earlier command is still running, one    *)
(* that hit its timeout included.                                          *)
C13_NoTwoCommandsAtOnce == running # "none" => orphans = EmptyBag

(* C14: with two instances running save_memo in any interleaving of their  *)
(* steps, the canonical memo file, once it exists, always decodes and is   *)
(* the complete memo one of the instances wrote.                           *)
C14_ReaderSeesCompleteMemo ==
    disk.dir[MEMO_FILE] # NoInode =>
        /\ JsonLoad(FileAt(disk, MEMO_FILE).text).ok
        /\ \E s \in TwoSkews :
              FileAt(disk, MEMO_FILE).text = JsonDump(DictOf(<<Item(MemoKey, IntNum(s))>>))

MatchingLines(cmd, out) ==
    {i \in 1..Len(out) :
        IF cmd = StripchartCmd THEN HasComma(out[i])
        ELSE IF cmd = StatusCmd THEN HasOffsetLabel(out[i])
        ELSE HasLastOffset(out[i])}

LineValue(cmd, line) ==
    IF cmd = StripchartCmd THEN StripchartParse(line)
    ELSE IF cmd = StatusCmd THEN StatusSearch(line)
    ELSE ChronyParse(line)

MaxOf(S) == CHOOSE i \in S : \A j \in S : j <= i

(* the sample a line stands for when a malformed line is a failed probe *)
SampleOrNone(value) == IF value = Raised THEN None ELSE value

(* C15: for each adapter the sample is the one parsed from the last        *)
(* matching line of the output; with no matching line, or with a malformed *)
(* last matching line, the probe gives no sample, and the adapter returns: *)
(* it never raises.                                                        *)
C15_LastMatchingLineWins ==
    pc \in {"parsed", "crashed"} =>
        LET M == MatchingLines(lastCmd.name, probeLines)
        IN  /\ pc = "parsed"
            /\ skew_ns = IF M = {} THEN None
                         ELSE SampleOrNone(LineValue(lastCmd.name,
                                                     probeLines[MaxOf(M)]))

(* C16: the mode fixes the run: a fast or lazy process makes one pass      *)
(* (probe, and after a sample the decision) and ends, without render or    *)
(* sleep, also when the probe fails; an ultrafast process never ends by    *)
(* itself. (Stated for a process whose memo loaded as a dict.)             *)
C16_ModeFixesRun ==
    memo.type = "dict" =>
        /\ pc # "crashed"
        /\ MODE = "ultrafast" => pc # "exited"
        /\ MODE # "ultrafast" =>
              /\ pc \notin {"render", "sleep"}
              /\ pc = "exited" =>
                    /\ Count("Probe", events) = 1
                    /\ outcome = "ok" => Count("Decision", events) = 1

(* C19: after a cycle whose probe gave a sample, the newest element of the *)
(* history and the memo's last_skew_ns are both that sample, and the       *)
(* previous value of the cycle is the sample of the process's preceding    *)
(* successful cycle when there was one. (Stated for a process whose memo   *)
(* loaded as a dict.)                                                      *)
C19_MemoAndHistoryAgree ==
    (pc \in CycleOverPcs /\ outcome = "ok" /\ memo.type = "dict") =>
        /\ skew_history # <<>>
        /\ skew_history[Len(skew_history)] = skew_ns[1]
        /\ HasKey(memo, MemoKey)
        /\ DictGet(memo, MemoKey, IntNum(0)) = IntNum(skew_ns[1])
        /\ last # None
        /\ Len(pushed) > SEED_SAMPLES + 1 => last[1] = IntNum(pushed[Len(pushed) - 1])

(* the rows of the graph, and the sample each was drawn for *)
GraphRows == SelectSeq(graph, LAMBDA l : ~l.head)

SampleOfRow(k) == skew_history[Len(skew_history) - Len(GraphRows) + k]

(* the columns of a row that hold a bar cell *)
Filled(cells, center) ==
    {c \in 0..(Len(cells) - 1) : c # center /\ cells[c + 1] # BlankCell}

(* C17: whatever the buffer and the terminal width, the plot is at least   *)
(* 20 columns wide and every row is as wide as the plot; the offset of     *)
(* every sample, the largest in magnitude included, gives a column inside  *)
(* the plot, and the bar has exactly that many cells: right of the centre  *)
(* for a positive sample, left of it for a negative one, none for zero.    *)
C17_BarsInsidePlot ==
    pc = "sleep" =>
        LET plot_w == PlotWidth(termWidth)
            center == Center(termWidth)
            scale  == Scale(MaxAbs(skew_history), center)
        IN  /\ plot_w >= 20
            /\ Len(GraphRows) = Min2(Len(skew_history), 40)
            /\ \A k \in 1..Len(GraphRows) :
                  LET val   == SampleOfRow(k)
                      cells == GraphRows[k].cells
                      offs  == BarOffset(val, scale)
                  IN  /\ Len(cells) = plot_w
                      /\ center + offs >= 0
                      /\ center + offs < plot_w
                      /\ Cardinality(Filled(cells, center)) = Abs(offs)
                      /\ val > 0 => Filled(cells, center) \subseteq (center + 1)..(plot_w - 1)
                      /\ val < 0 => Filled(cells, center) \subseteq 0..(center - 1)
                      /\ val = 0 => Filled(cells, center) = {}

C17_Witness ==
    /\ pc = "sleep"
    /\ termWidth = FallbackWidth
    /\ skew_history = <<-1, 2>>
    /\ Len(GraphRows) = 2
    /\ Filled(GraphRows[1].cells, 50) = 25..49
    /\ Filled(GraphRows[2].cells, 50) = 51..99

(* C18 as stated: render_graph on an empty buffer gives at least one plot  *)
(* row with the axis at the centre and no bar.                             *)
C18_EmptyBufferDrawsAxis ==
    (pc = "sleep" /\ skew_history = <<>>) =>
        \E k \in 1..Len(GraphRows) :
            /\ GraphRows[k].cells[Center(termWidth) + 1] = AxisCell
            /\ Filled(GraphRows[k].cells, Center(termWidth)) = {}

(* C18, amended: render_graph on an empty buffer does not fail and gives   *)
(* the scale line alone, with no plot row; main() puts four zero samples   *)
(* into an empty buffer before the first cycle, so the running program     *)
(* never draws an empty buffer, and every row it draws for a zero sample   *)
(* is the axis at the centre with no bar.                                  *)
C18_EmptyBufferDrawsHeaderOnly ==
    /\ (pc = "sleep" /\ skew_history = <<>>) => graph = <<HeaderLine(1)>>
    /\ (cycle >= 1 /\ pc \in {"probe", "render", "sleep"})
           => Len(skew_history) >= SEED_SAMPLES
    /\ (cycle >= 1 /\ pc = "sleep")
           => /\ Len(GraphRows) >= SEED_SAMPLES
              /\ \A k \in 1..Len(GraphRows) :
                    SampleOfRow(k) = 0 =>
                        /\ GraphRows[k].cells[Center(termWidth) + 1] = AxisCell
                        /\ Filled(GraphRows[k].cells, Center(termWidth)) = {}

C18_Witness ==
    /\ pc = "sleep"
    /\ cycle = 0
    /\ skew_history = <<>>
    /\ graph = <<HeaderLine(1)>>
    /\ termWidth = 1

(* C20: a run of dispatcher.py's drift_correction_windows that could not   *)
(* parse the skew has issued the forced resync when it ends, and has left  *)
(* the memo file as it found it.                                           *)
C20_ParseFailureForcesResync ==
    (IS_WINDOWS /\ pc = "exited" /\ outcome \notin {"ok", "none"}) =>
        /\ issued = "force"
        /\ Count("ACTION force", events) = 1
        /\ fs[MEMO_FILE] = canon

====
